---- MODULE Spec2Model ----
(***************************************************************************)
(* Cart manager and order assembler of the storefront.                     *)
(*                                                                         *)
(* Every request handler is a sequence of steps separated by the awaits of *)
(* its code: a step is everything the handler does between two database    *)
(* operations, and one database operation is atomic.  The session object   *)
(* of a request is the copy the session middleware loaded when the request *)
(* started; it is written back to the session store when the response is   *)
(* sent and the handler modified it.                                       *)
(***************************************************************************)
EXTENDS Integers, Sequences, FiniteSets, TLC

\* ---------------------------------------------------------------- bounds
MaxQty == 2          \* largest quantity a request or a seeded line carries
MaxStock == 2        \* largest stock a variant starts with or is set to
MaxOrders == 2       \* order documents the store may hold
MaxLines == 3        \* lines a stored user cart may hold
MaxLineQty == 4      \* largest quantity a stored cart line may reach
MaxReqs == 3         \* requests accepted in a run that limits them
MaxPricedQty == 5    \* largest quantity of a line of a priced order

Slots == {1, 2}      \* request handlers that may be in flight together

\* ------------------------------------------------------------- universes
ProductIds == {"p1", "p2"}
UserIds == {"u1", "u2"}
SessionIds == {"s1", "s2"}
SizeVals == {"S", "M"}
ColorVals == {"White", "Black"}
CategoryIds == {"c1", "c2", "c3"}
NoUser == "none"
NoCategory == "none"

VARIABLES
    products,   \* Product collection: id -> document
    users,      \* User collection: id -> [cart, orders]
    sessions,   \* session store: id -> [user, hasCart, cart, cartCount]
    orders,     \* Order collection, in insertion order
    req,        \* the request handlers: slot -> position and locals
    budget,     \* requests still accepted in this run; negative: no limit
    categories, \* Category collection: id -> document
    productCategory \* the category field of the products: id -> category id

vars == <<products, users, sessions, orders, req, budget, categories, productCategory>>

\* ------------------------------------------------------- data and helpers
Line(pid, size, color, qty) ==
    [product |-> pid, size |-> size, color |-> color, quantity |-> qty]

Variant(size, color, stock) == [size |-> size, color |-> color, stock |-> stock]

\* A variant that carries a price of its own (the field is optional).
PricedVariant(size, color, stock, price) ==
    [size |-> size, color |-> color, stock |-> stock, price |-> price]

RECURSIVE SumStock(_)
SumStock(vs) == IF vs = <<>> THEN 0 ELSE Head(vs).stock + SumStock(Tail(vs))

NoProduct ==
    [exists |-> FALSE, isActive |-> FALSE, price |-> 0, variants |-> <<>>,
     totalStock |-> 0, soldCount |-> 0, viewCount |-> 0, fetched |-> 0]

\* A product document as product.save() leaves it: the pre('save') hook
\* recomputes totalStock from the variants.  fetched is a history field: the
\* number of fetches of the product that answered success and were not made
\* with the admin flag.
SavedProduct(price, active, vs, sold) ==
    [exists |-> TRUE, isActive |-> active, price |-> price, variants |-> vs,
     totalStock |-> SumStock(vs), soldCount |-> sold, viewCount |-> 0, fetched |-> 0]

\* Array.prototype.find(v => v.size === size && v.color === color): the
\* index of the first variant matching both, 0 when there is none.
FindVariant(vs, size, color) ==
    LET hits == {i \in 1..Len(vs) : vs[i].size = size /\ vs[i].color = color}
    IN  IF hits = {} THEN 0 ELSE CHOOSE i \in hits : \A j \in hits : i <= j

\* Array.prototype.findIndex over the lines of a cart, 0 for -1.
FindLine(cart, pid, size, color) ==
    LET hits == {i \in 1..Len(cart) : /\ cart[i].product = pid
                                      /\ cart[i].size = size
                                      /\ cart[i].color = color}
    IN  IF hits = {} THEN 0 ELSE CHOOSE i \in hits : \A j \in hits : i <= j

\* FilterOut dropping every line of the product, whatever its size and color.
FilterOutProduct(cart, pid, size, color) ==
    SelectSeq(cart, LAMBDA ln : ln.product # pid)

\* Array.prototype.filter(item => !(key matches))
RECURSIVE FilterOut(_, _, _, _)
FilterOut(cart, pid, size, color) ==
    IF cart = <<>> THEN <<>>
    ELSE LET h == Head(cart)
             rest == FilterOut(Tail(cart), pid, size, color)
         IN  IF h.product = pid /\ h.size = size /\ h.color = color
             THEN rest ELSE <<h>> \o rest

\* The document a reference resolves to (populate, findById).
Lookup(prods, pid) == IF pid \in DOMAIN prods THEN prods[pid] ELSE NoProduct

\* Product.findOne({_id, isActive: true}) as seen by the cart handlers.
FindActive(prods, pid) ==
    IF pid \in DOMAIN prods /\ prods[pid].exists /\ prods[pid].isActive
    THEN prods[pid] ELSE NoProduct

\* Prices in cents.  The base prices are those of the seeded products; the
\* M variants of p1 carry a price of their own, the others carry none.
BasePrice(pid) == IF pid = "p1" THEN 2999 ELSE 8999

VariantPrice(pid, size, color) == IF pid = "p1" /\ size = "M" THEN 6999 ELSE 0

\* variant.price, 0 standing for a variant without the field.
PriceOfVariant(v) == IF "price" \in DOMAIN v THEN v.price ELSE 0

\* variant.price || product.price, on the product document the handler
\* holds and the variant found in it.
ItemPrice(prod, size, color) ==
    LET vi == FindVariant(prod.variants, size, color)
    IN  IF vi > 0 /\ PriceOfVariant(prod.variants[vi]) # 0
        THEN PriceOfVariant(prod.variants[vi])
        ELSE prod.price

\* A user document with the schema defaults.
NewUser == [exists |-> TRUE, role |-> "user", cart |-> <<>>, orders |-> <<>>]

\* No user document under the id yet.
Unregistered == [NewUser EXCEPT !.exists = FALSE]

GuestSession ==
    [user |-> NoUser, role |-> "", hasCart |-> FALSE, cart |-> <<>>, cartCount |-> 0]

\* Amounts are in cents.
NoPricing == [subtotal |-> 0, tax |-> 0, shipping |-> 0, discount |-> 0, total |-> 0]

\* A request body without a coupon (or with a coupon without a code).
NoCoupon == [code |-> "", type |-> "", discount |-> 0]

IdleReq ==
    [pc |-> "idle", op |-> "none", sid |-> "s1", sess |-> GuestSession,
     uid |-> "none", pid |-> "p1", size |-> "S", color |-> "White", qty |-> 0,
     cat |-> NoCategory, parent |-> NoCategory, views |-> 0,
     vstock |-> 0, ucart |-> <<>>, vok |-> FALSE, dirty |-> FALSE,
     items |-> <<>>, k |-> 0, oid |-> 0, subtotal |-> 0, pricing |-> NoPricing,
     coupon |-> NoCoupon, number |-> "", status |-> "", note |-> "", seen |-> "",
     res |-> "none"]

\* The handler has answered: only the request and its result remain.
Finish(r, result) ==
    [IdleReq EXCEPT !.pc = "done", !.res = result, !.op = r.op, !.sid = r.sid,
                    !.uid = r.uid, !.pid = r.pid, !.size = r.size,
                    !.color = r.color, !.qty = r.qty]

\* The response is sent: express-session stores the request's session copy
\* when the handler changed it.
StoreSession(sid, before, after) ==
    IF after = before THEN sessions ELSE [sessions EXCEPT ![sid] = after]

\* A request is accepted: a run that limits its requests spends one.
Accept ==
    /\ budget # 0
    /\ budget' = IF budget > 0 THEN budget - 1 ELSE budget

\* ------------------------------------------------------------ cart: Add
\* AddCheck refusing a quantity equal to the stock.
AddCheckStrict(prod, size, color, qty) ==
    IF ~prod.exists THEN "ProductNotFound"
    ELSE LET vi == FindVariant(prod.variants, size, color)
         IN  IF vi = 0 THEN "VariantUnavailable"
             ELSE IF prod.variants[vi].stock <= qty THEN "InsufficientStock"
             ELSE "ok"

\* Outcome of the product checks of POST /add for the product as read.
AddCheck(prod, size, color, qty) ==
    IF ~prod.exists THEN "ProductNotFound"
    ELSE LET vi == FindVariant(prod.variants, size, color)
         IN  IF vi = 0 THEN "VariantUnavailable"
             ELSE IF prod.variants[vi].stock < qty THEN "InsufficientStock"
             ELSE "ok"

\* AddMerge overwriting the quantity of the line it finds.
AddMergeOverwrite(cart, pid, size, color, qty) ==
    LET i == FindLine(cart, pid, size, color)
    IN  IF i > 0 THEN [cart EXCEPT ![i].quantity = qty]
        ELSE Append(cart, Line(pid, size, color, qty))

\* The cart after the merge-or-append of POST /add.
AddMerge(cart, pid, size, color, qty) ==
    LET i == FindLine(cart, pid, size, color)
    IN  IF i > 0 THEN [cart EXCEPT ![i].quantity = cart[i].quantity + qty]
        ELSE Append(cart, Line(pid, size, color, qty))

\* The request arrives: the session is loaded, the body validated
\* (quantity >= 1) and the product read.
AddStart(s, sid, pid, size, color, qty) ==
    /\ Accept
    /\ req[s].pc = "idle"
    /\ LET prod == FindActive(products, pid)
           chk == AddCheck(prod, size, color, qty)
           r0 == [IdleReq EXCEPT !.op = "add", !.sid = sid, !.sess = sessions[sid],
                                 !.pid = pid, !.size = size, !.color = color,
                                 !.qty = qty]
       IN  req' = [req EXCEPT ![s] =
                IF chk # "ok" THEN Finish(r0, chk)
                ELSE [r0 EXCEPT
                        !.vstock = prod.variants[FindVariant(prod.variants, size, color)].stock,
                        !.pc = IF sessions[sid].user # NoUser
                               THEN "add_user" ELSE "add_guest"]]
    /\ UNCHANGED <<products, users, sessions, orders, categories, productCategory>>

\* Guest branch: merge into req.session.cart and respond.
AddGuest(s) ==
    /\ req[s].pc = "add_guest"
    /\ LET r == req[s]
           cart == IF r.sess.hasCart THEN r.sess.cart ELSE <<>>
           i == FindLine(cart, r.pid, r.size, r.color)
       IN  IF i > 0 /\ r.vstock < cart[i].quantity + r.qty
           THEN /\ req' = [req EXCEPT ![s] = Finish(r, "InsufficientStock")]
                /\ UNCHANGED sessions
           ELSE LET newCart == AddMerge(cart, r.pid, r.size, r.color, r.qty)
                    after == [r.sess EXCEPT !.hasCart = TRUE, !.cart = newCart,
                                            !.cartCount = Len(newCart)]
                IN  /\ sessions' = StoreSession(r.sid, r.sess, after)
                    /\ req' = [req EXCEPT ![s] = Finish([r EXCEPT !.sess = after], "ok")]
    /\ UNCHANGED <<products, users, orders, budget, categories, productCategory>>

\* -------------------------------------------- user documents and save()
\* A cart element MongoDB creates when $set addresses an index past the end
\* of the stored array: the addressed element holds only the quantity, the
\* elements before it are null.
HoleLine(qty) == Line("none", "none", "none", qty)

\* $set of cart.<i>.quantity on the stored array.
SetQtyAt(db, i, qty) ==
    IF i <= Len(db) THEN [db EXCEPT ![i].quantity = qty]
    ELSE db \o [j \in 1..(i - Len(db)) |->
                    IF j = i - Len(db) THEN HoleLine(qty) ELSE HoleLine(0)]

\* The document version (__v) is kept as its only observable: req[s].vok
\* tells whether the version the handler read is still the stored one.  A
\* save that pushes to or replaces the cart array increments the version,
\* which makes the copies the other handlers hold of that user stale.
BumpVersion(rq, s, u) ==
    [t \in Slots |-> IF t # s /\ rq[t].sess.user = u
                     THEN [rq[t] EXCEPT !.vok = FALSE] ELSE rq[t]]

\* The stores are finite: a write that would grow a user cart past MaxLines
\* lines or a line past MaxLineQty is not taken.
Fits(cart) ==
    /\ Len(cart) <= MaxLines
    /\ \A i \in 1..Len(cart) : cart[i].quantity <= MaxLineQty

\* User.findById(req.session.user.id): the handler's copy of the cart.
ReadUser(r) == [r EXCEPT !.ucart = users[r.sess.user].cart, !.vok = TRUE]

\* User branch of POST /add, after User.findById: the merge check.
AddUserRead(s) ==
    /\ req[s].pc = "add_user"
    /\ LET r == ReadUser(req[s])
           i == FindLine(r.ucart, r.pid, r.size, r.color)
       IN  req' = [req EXCEPT ![s] =
                IF i > 0 /\ r.vstock < r.ucart[i].quantity + r.qty
                THEN Finish(r, "InsufficientStock")
                ELSE [r EXCEPT !.pc = "add_save"]]
    /\ UNCHANGED <<products, users, sessions, orders, budget, categories, productCategory>>

\* user.save() of POST /add: a pushed line is sent as $push (no version
\* check), a changed quantity as $set cart.<i>.quantity guarded by the
\* version; then req.session.cartCount = user.cart.length.
AddUserSave(s) ==
    /\ req[s].pc = "add_save"
    /\ LET r == req[s]
           u == r.sess.user
           i == FindLine(r.ucart, r.pid, r.size, r.color)
           local == AddMerge(r.ucart, r.pid, r.size, r.color, r.qty)
           after == [r.sess EXCEPT !.cartCount = Len(local)]
           done == Finish([r EXCEPT !.sess = after, !.ucart = local], "ok")
       IN  IF i = 0
           THEN /\ Fits(Append(users[u].cart, Line(r.pid, r.size, r.color, r.qty)))
                /\ users' = [users EXCEPT ![u].cart =
                                Append(@, Line(r.pid, r.size, r.color, r.qty))]
                /\ req' = BumpVersion([req EXCEPT ![s] = done], s, u)
                /\ sessions' = StoreSession(r.sid, r.sess, after)
           ELSE IF ~r.vok
           THEN /\ req' = [req EXCEPT ![s] = Finish(r, "ServerError")]
                /\ UNCHANGED <<users, sessions>>
           ELSE /\ Fits(SetQtyAt(users[u].cart, i, local[i].quantity))
                /\ users' = [users EXCEPT ![u].cart = SetQtyAt(@, i, local[i].quantity)]
                /\ req' = [req EXCEPT ![s] = done]
                /\ sessions' = StoreSession(r.sid, r.sess, after)
    /\ UNCHANGED <<products, orders, budget, categories, productCategory>>

\* --------------------------------------------------------- cart: Update
\* UpdateCheck looking for the variant only, not at its stock.
UpdateCheckAnyStock(prod, size, color, qty) ==
    IF ~prod.exists THEN "ProductNotFound"
    ELSE LET vi == FindVariant(prod.variants, size, color)
         IN  IF vi = 0 THEN "InsufficientStock" ELSE "ok"

\* Outcome of the product checks of PUT /update for the product as read.
UpdateCheck(prod, size, color, qty) ==
    IF ~prod.exists THEN "ProductNotFound"
    ELSE LET vi == FindVariant(prod.variants, size, color)
         IN  IF vi = 0 \/ prod.variants[vi].stock < qty
             THEN "InsufficientStock" ELSE "ok"

\* PUT /update arrives.  quantity === 0 hands {method, url, body} to
\* router.handle: the DELETE /remove handler runs on that object, which has
\* no session, so reading req.session.user throws inside its try block and
\* its catch answers 500; the cart of the caller is not touched.
UpdateStart(s, sid, pid, size, color, qty) ==
    /\ Accept
    /\ req[s].pc = "idle"
    /\ LET chk == UpdateCheck(FindActive(products, pid), size, color, qty)
           r0 == [IdleReq EXCEPT !.op = "update", !.sid = sid, !.sess = sessions[sid],
                                 !.pid = pid, !.size = size, !.color = color,
                                 !.qty = qty]
       IN  req' = [req EXCEPT ![s] =
                IF qty = 0 THEN Finish(r0, "ServerError")
                ELSE IF chk # "ok" THEN Finish(r0, chk)
                ELSE [r0 EXCEPT !.pc = IF sessions[sid].user # NoUser
                                       THEN "upd_user" ELSE "upd_guest"]]
    /\ UNCHANGED <<products, users, sessions, orders, categories, productCategory>>

UpdateGuest(s) ==
    /\ req[s].pc = "upd_guest"
    /\ LET r == req[s]
           i == FindLine(r.sess.cart, r.pid, r.size, r.color)
       IN  IF ~r.sess.hasCart
           THEN /\ req' = [req EXCEPT ![s] = Finish(r, "CartEmpty")]
                /\ UNCHANGED sessions
           ELSE IF i = 0
           THEN /\ req' = [req EXCEPT ![s] = Finish(r, "ItemNotFound")]
                /\ UNCHANGED sessions
           ELSE LET after == [r.sess EXCEPT !.cart[i].quantity = r.qty]
                IN  /\ sessions' = StoreSession(r.sid, r.sess, after)
                    /\ req' = [req EXCEPT ![s] = Finish([r EXCEPT !.sess = after], "ok")]
    /\ UNCHANGED <<products, users, orders, budget, categories, productCategory>>

UpdateUserRead(s) ==
    /\ req[s].pc = "upd_user"
    /\ LET r == ReadUser(req[s])
           i == FindLine(r.ucart, r.pid, r.size, r.color)
       IN  req' = [req EXCEPT ![s] =
                IF i = 0 THEN Finish(r, "ItemNotFound")
                ELSE [r EXCEPT !.pc = "upd_save"]]
    /\ UNCHANGED <<products, users, sessions, orders, budget, categories, productCategory>>

\* user.save() of PUT /update: $set cart.<i>.quantity guarded by the
\* version; an unchanged quantity leaves nothing to save.
UpdateUserSave(s) ==
    /\ req[s].pc = "upd_save"
    /\ LET r == req[s]
           u == r.sess.user
           i == FindLine(r.ucart, r.pid, r.size, r.color)
       IN  IF r.ucart[i].quantity = r.qty
           THEN /\ req' = [req EXCEPT ![s] = Finish(r, "ok")]
                /\ UNCHANGED users
           ELSE IF ~r.vok
           THEN /\ req' = [req EXCEPT ![s] = Finish(r, "ServerError")]
                /\ UNCHANGED users
           ELSE /\ Fits(SetQtyAt(users[u].cart, i, r.qty))
                /\ users' = [users EXCEPT ![u].cart = SetQtyAt(@, i, r.qty)]
                /\ req' = [req EXCEPT ![s] =
                        Finish([r EXCEPT !.ucart[i].quantity = r.qty], "ok")]
    /\ UNCHANGED <<products, sessions, orders, budget, categories, productCategory>>

\* --------------------------------------------------------- cart: Remove
RemoveStart(s, sid, pid, size, color) ==
    /\ Accept
    /\ req[s].pc = "idle"
    /\ req' = [req EXCEPT ![s] =
            [IdleReq EXCEPT !.op = "remove", !.sid = sid, !.sess = sessions[sid],
                            !.pid = pid, !.size = size, !.color = color,
                            !.pc = IF sessions[sid].user # NoUser
                                   THEN "rem_user" ELSE "rem_guest"]]
    /\ UNCHANGED <<products, users, sessions, orders, categories, productCategory>>

RemoveGuest(s) ==
    /\ req[s].pc = "rem_guest"
    /\ LET r == req[s]
           kept == FilterOut(r.sess.cart, r.pid, r.size, r.color)
           after == IF r.sess.hasCart
                    THEN [r.sess EXCEPT !.cart = kept, !.cartCount = Len(kept)]
                    ELSE r.sess
       IN  /\ sessions' = StoreSession(r.sid, r.sess, after)
           /\ req' = [req EXCEPT ![s] = Finish([r EXCEPT !.sess = after], "ok")]
    /\ UNCHANGED <<products, users, orders, budget, categories, productCategory>>

RemoveUserRead(s) ==
    /\ req[s].pc = "rem_user"
    /\ req' = [req EXCEPT ![s] = [ReadUser(req[s]) EXCEPT !.pc = "rem_save"]]
    /\ UNCHANGED <<products, users, sessions, orders, budget, categories, productCategory>>

\* user.cart = user.cart.filter(...); user.save(): the whole array is $set,
\* guarded by the version and incrementing it; an array equal to the one
\* read leaves nothing to save.
RemoveUserSave(s) ==
    /\ req[s].pc = "rem_save"
    /\ LET r == req[s]
           u == r.sess.user
           kept == FilterOut(r.ucart, r.pid, r.size, r.color)
           after == [r.sess EXCEPT !.cartCount = Len(kept)]
           done == Finish([r EXCEPT !.sess = after, !.ucart = kept], "ok")
       IN  IF kept = r.ucart
           THEN /\ req' = [req EXCEPT ![s] = done]
                /\ sessions' = StoreSession(r.sid, r.sess, after)
                /\ UNCHANGED users
           ELSE IF ~r.vok
           THEN /\ req' = [req EXCEPT ![s] = Finish(r, "ServerError")]
                /\ UNCHANGED <<users, sessions>>
           ELSE /\ users' = [users EXCEPT ![u].cart = kept]
                /\ req' = BumpVersion([req EXCEPT ![s] = done], s, u)
                /\ sessions' = StoreSession(r.sid, r.sess, after)
    /\ UNCHANGED <<products, orders, budget, categories, productCategory>>

\* ---------------------------------------------------------- cart: Clear
ClearStart(s, sid) ==
    /\ Accept
    /\ req[s].pc = "idle"
    /\ req' = [req EXCEPT ![s] =
            [IdleReq EXCEPT !.op = "clear", !.sid = sid, !.sess = sessions[sid],
                            !.pc = "clear"]]
    /\ UNCHANGED <<products, users, sessions, orders, categories, productCategory>>

\* User.findByIdAndUpdate(id, {cart: []}) for a user (an update operator:
\* the version is neither checked nor incremented), req.session.cart = []
\* for a guest; cartCount = 0 for both.
ClearFinish(s) ==
    /\ req[s].pc = "clear"
    /\ LET r == req[s]
           after == IF r.sess.user # NoUser
                    THEN [r.sess EXCEPT !.cartCount = 0]
                    ELSE [r.sess EXCEPT !.hasCart = TRUE, !.cart = <<>>,
                                        !.cartCount = 0]
       IN  /\ users' = IF r.sess.user # NoUser
                       THEN [users EXCEPT ![r.sess.user].cart = <<>>]
                       ELSE users
           /\ sessions' = StoreSession(r.sid, r.sess, after)
           /\ req' = [req EXCEPT ![s] = Finish([r EXCEPT !.sess = after], "ok")]
    /\ UNCHANGED <<products, orders, budget, categories, productCategory>>

\* ------------------------------------------------------- cart: Transfer
\* The merge loop of POST /transfer over the handler's copy of the cart.
RECURSIVE TransferMerge(_, _)
TransferMerge(cart, items) ==
    IF items = <<>> THEN cart
    ELSE LET it == Head(items)
             i == FindLine(cart, it.product, it.size, it.color)
         IN  TransferMerge(
                 IF i > 0
                 THEN [cart EXCEPT ![i].quantity = cart[i].quantity + it.quantity]
                 ELSE Append(cart, Line(it.product, it.size, it.color, it.quantity)),
                 Tail(items))

\* $set of every quantity that differs from the one read, on the stored array.
RECURSIVE SetChanged(_, _, _, _)
SetChanged(db, old, new, i) ==
    IF i > Len(old) THEN db
    ELSE SetChanged(IF new[i].quantity # old[i].quantity
                    THEN SetQtyAt(db, i, new[i].quantity) ELSE db,
                    old, new, i + 1)

TransferStart(s, sid) ==
    /\ Accept
    /\ req[s].pc = "idle"
    /\ LET r0 == [IdleReq EXCEPT !.op = "transfer", !.sid = sid,
                                 !.sess = sessions[sid]]
       IN  req' = [req EXCEPT ![s] =
                IF sessions[sid].user = NoUser THEN Finish(r0, "Unauthorized")
                ELSE IF ~sessions[sid].hasCart \/ sessions[sid].cart = <<>>
                THEN Finish(r0, "ok")
                ELSE [r0 EXCEPT !.pc = "tr_user"]]
    /\ UNCHANGED <<products, users, sessions, orders, categories, productCategory>>

TransferRead(s) ==
    /\ req[s].pc = "tr_user"
    /\ req' = [req EXCEPT ![s] = [ReadUser(req[s]) EXCEPT !.pc = "tr_save"]]
    /\ UNCHANGED <<products, users, sessions, orders, budget, categories, productCategory>>

\* user.save() of POST /transfer, then the session cart is emptied.  Pushed
\* lines alone go out as $push; changed quantities alone as $set guarded by
\* the version; both together as a $set of the whole array, guarded by the
\* version and incrementing it.
TransferSave(s) ==
    /\ req[s].pc = "tr_save"
    /\ LET r == req[s]
           u == r.sess.user
           local == TransferMerge(r.ucart, r.sess.cart)
           pushed == SubSeq(local, Len(r.ucart) + 1, Len(local))
           anySet == \E i \in 1..Len(r.ucart) :
                         local[i].quantity # r.ucart[i].quantity
           after == [r.sess EXCEPT !.cart = <<>>, !.cartCount = Len(local)]
           done == Finish([r EXCEPT !.sess = after, !.ucart = local], "ok")
       IN  IF ~anySet
           THEN /\ Fits(users[u].cart \o pushed)
                /\ users' = [users EXCEPT ![u].cart = @ \o pushed]
                /\ req' = BumpVersion([req EXCEPT ![s] = done], s, u)
                /\ sessions' = StoreSession(r.sid, r.sess, after)
           ELSE IF ~r.vok
           THEN /\ req' = [req EXCEPT ![s] = Finish(r, "ServerError")]
                /\ UNCHANGED <<users, sessions>>
           ELSE IF pushed = <<>>
           THEN /\ Fits(SetChanged(users[u].cart, r.ucart, local, 1))
                /\ users' = [users EXCEPT ![u].cart = SetChanged(@, r.ucart, local, 1)]
                /\ req' = [req EXCEPT ![s] = done]
                /\ sessions' = StoreSession(r.sid, r.sess, after)
           ELSE /\ Fits(local)
                /\ users' = [users EXCEPT ![u].cart = local]
                /\ req' = BumpVersion([req EXCEPT ![s] = done], s, u)
                /\ sessions' = StoreSession(r.sid, r.sess, after)
    /\ UNCHANGED <<products, orders, budget, categories, productCategory>>

\* ----------------------------------------------------------------- login
\* POST /login with valid credentials on a session without a user: the user
\* is read, then req.session.user (the id and the role among its fields) and
\* req.session.cartCount are set.  The session cart is left as it is.
LoginStart(s, sid, u) ==
    /\ Accept
    /\ req[s].pc = "idle"
    /\ users[u].exists
    /\ LET r0 == [IdleReq EXCEPT !.op = "login", !.sid = sid, !.sess = sessions[sid]]
       IN  req' = [req EXCEPT ![s] =
                IF sessions[sid].user # NoUser THEN Finish(r0, "Redirect")
                ELSE [r0 EXCEPT !.ucart = users[u].cart, !.uid = u, !.pc = "login"]]
    /\ UNCHANGED <<products, users, sessions, orders, categories, productCategory>>

LoginFinish(s) ==
    /\ req[s].pc = "login"
    /\ LET r == req[s]
           after == [r.sess EXCEPT !.user = r.uid, !.role = users[r.uid].role,
                                   !.cartCount = Len(r.ucart)]
       IN  /\ sessions' = StoreSession(r.sid, r.sess, after)
           /\ req' = [req EXCEPT ![s] = Finish([r EXCEPT !.sess = after], "ok")]
    /\ UNCHANGED <<products, users, orders, budget, categories, productCategory>>

\* POST /register on a session without a user (isNotAuthenticated redirects
\* the others): an email that is taken renders the form again; otherwise
\* the user is saved with the schema defaults and req.session.user is set.
Register(s, sid, u) ==
    /\ Accept
    /\ req[s].pc = "idle"
    /\ LET r0 == [IdleReq EXCEPT !.op = "register", !.sid = sid, !.uid = u,
                                 !.sess = sessions[sid]]
           after == [sessions[sid] EXCEPT !.user = u, !.role = "user"]
       IN  IF sessions[sid].user # NoUser
           THEN /\ req' = [req EXCEPT ![s] = Finish(r0, "Redirect")]
                /\ UNCHANGED <<users, sessions>>
           ELSE IF users[u].exists
           THEN /\ req' = [req EXCEPT ![s] = Finish(r0, "EmailTaken")]
                /\ UNCHANGED <<users, sessions>>
           ELSE /\ users' = [users EXCEPT ![u] = NewUser]
                /\ sessions' = StoreSession(sid, sessions[sid], after)
                /\ req' = [req EXCEPT ![s] = Finish([r0 EXCEPT !.sess = after], "ok")]
    /\ UNCHANGED <<products, orders, categories, productCategory>>

\* The response has been delivered; the handler's locals are gone.
Release(s) ==
    /\ req[s].pc = "done"
    /\ req' = [req EXCEPT ![s] = IdleReq]
    /\ UNCHANGED <<products, users, sessions, orders, budget, categories, productCategory>>

\* ------------------------------------------------------ order creation
OrderNumbers == {"ORD-1", "ORD-2"}

\* The validation loop with the stock test weakened to "some stock left".
RECURSIVE ValidateCartAnyStock(_, _)
ValidateCartAnyStock(cart, prods) ==
    IF cart = <<>> THEN "ok"
    ELSE LET ln == Head(cart)
             prod == Lookup(prods, ln.product)
             vi == FindVariant(prod.variants, ln.size, ln.color)
         IN  IF ~prod.exists \/ ~prod.isActive THEN "ProductUnavailable"
             ELSE IF vi = 0 \/ prod.variants[vi].stock < 1
             THEN "InsufficientStock"
             ELSE ValidateCartAnyStock(Tail(cart), prods)

\* Outcome of the validation loop of POST /api/orders over the populated
\* cart: the first line that fails decides the answer.
RECURSIVE ValidateCart(_, _)
ValidateCart(cart, prods) ==
    IF cart = <<>> THEN "ok"
    ELSE LET ln == Head(cart)
             prod == Lookup(prods, ln.product)
             vi == FindVariant(prod.variants, ln.size, ln.color)
         IN  IF ~prod.exists \/ ~prod.isActive THEN "ProductUnavailable"
             ELSE IF vi = 0 \/ prod.variants[vi].stock < ln.quantity
             THEN "InsufficientStock"
             ELSE ValidateCart(Tail(cart), prods)

\* The order items built from the validated cart and the products it was
\* populated with: a copy of each line with its unit price and its total.
OrderItems(cart, prods) ==
    [i \in 1..Len(cart) |->
        [product |-> cart[i].product, size |-> cart[i].size, color |-> cart[i].color,
         quantity |-> cart[i].quantity,
         price |-> ItemPrice(Lookup(prods, cart[i].product), cart[i].size, cart[i].color),
         total |-> ItemPrice(Lookup(prods, cart[i].product), cart[i].size, cart[i].color)
                        * cart[i].quantity]]

\* items.reduce((sum, item) => sum + item.total, 0)
RECURSIVE SumTotals(_)
SumTotals(items) ==
    IF items = <<>> THEN 0 ELSE Head(items).total + SumTotals(Tail(items))

\* Math.round(subtotal * 0.1 * 100) / 100 on IEEE doubles.  A subtotal whose
\* tenth ends in half a cent is rounded up when the double product is at or
\* above the half and down when it falls below it.  TenthRoundsDown lists
\* the subtotals the carts of this model can reach for which it falls below:
\* 69.99 * 5 = 349.95, and 349.95 * 0.1 * 100 = 3499.4999999999995.
TenthRoundsDown == {34995}

RoundedTenth(sub) ==
    IF sub \in TenthRoundsDown THEN sub \div 10 ELSE (sub + 5) \div 10

\* subtotal > 100 ? 0 : 10
ShippingCost(sub) == IF sub > 10000 THEN 0 ELSE 1000

\* Math.min(a, b)
Min(a, b) == IF a < b THEN a ELSE b

\* The coupon block: only the code SAVE10 gives a discount, a tenth of the
\* subtotal for the type percentage, else Math.min(coupon.discount || 10,
\* subtotal).
CouponDiscount(coupon, sub) ==
    IF coupon.code # "SAVE10" THEN 0
    ELSE IF coupon.type = "percentage" THEN RoundedTenth(sub)
    ELSE Min(IF coupon.discount # 0 THEN coupon.discount ELSE 1000, sub)

\* The pricing object the handler hands to new Order(...).
OrderPricing(items, coupon) ==
    LET sub == SumTotals(items)
    IN  [subtotal |-> sub, tax |-> RoundedTenth(sub), shipping |-> ShippingCost(sub),
         discount |-> CouponDiscount(coupon, sub),
         total |-> sub + RoundedTenth(sub) + ShippingCost(sub)
                       - CouponDiscount(coupon, sub)]

\* POST /api/orders arrives: the session is loaded, the user read with the
\* cart populated, the cart validated, the order items built and priced.
OrderStartWith(s, sid, coupon) ==
    /\ Accept
    /\ req[s].pc = "idle"
    /\ LET r0 == [IdleReq EXCEPT !.op = "order", !.sid = sid, !.sess = sessions[sid]]
           u == sessions[sid].user
       IN  req' = [req EXCEPT ![s] =
                IF u = NoUser THEN Finish(r0, "Unauthorized")
                ELSE IF users[u].cart = <<>> THEN Finish(r0, "CartEmpty")
                ELSE IF ValidateCart(users[u].cart, products) # "ok"
                THEN Finish(r0, ValidateCart(users[u].cart, products))
                ELSE [r0 EXCEPT !.items = OrderItems(users[u].cart, products),
                                !.pricing = OrderPricing(OrderItems(users[u].cart, products),
                                                         coupon),
                                !.coupon = coupon,
                                !.ucart = users[u].cart,
                                !.vok = TRUE, !.pc = "ord_save"]]
    /\ UNCHANGED <<products, users, sessions, orders, categories, productCategory>>

\* The request body carries no coupon.
OrderStart(s, sid) == OrderStartWith(s, sid, NoCoupon)

\* The order as the collection stores it.  decs and closed are history
\* fields: the number of stock updates issued for the order that changed a
\* product, and whether the creating request has answered.
\* quoted is a history field too: the pricing the handler computed.
NewOrder(number, u, items, pricing, coupon) ==
    [orderNumber |-> number, user |-> u, items |-> items, status |-> "pending",
     statusHistory |-> <<>>, tracking |-> "", carrier |-> "", pricing |-> pricing, coupon |-> coupon, quoted |-> pricing,
     decs |-> 0, closed |-> FALSE]

\* A pre('save') hook that takes the unit prices from the catalog.
PreSaveOrderFromCatalog(o) ==
    LET its == [i \in 1..Len(o.items) |->
                    [o.items[i] EXCEPT
                        !.price = ItemPrice(Lookup(products, o.items[i].product),
                                            o.items[i].size, o.items[i].color),
                        !.total = ItemPrice(Lookup(products, o.items[i].product),
                                            o.items[i].size, o.items[i].color)
                                    * o.items[i].quantity]]
    IN  [o EXCEPT !.items = its,
                  !.pricing.subtotal = SumTotals(its),
                  !.pricing.total = SumTotals(its) + o.pricing.tax + o.pricing.shipping
                                        - o.pricing.discount]

\* The pre('save') hook of the order: item totals, subtotal and total are
\* computed again from the items and the stored tax, shipping and discount.
PreSaveOrder(o) ==
    LET its == [i \in 1..Len(o.items) |->
                    [o.items[i] EXCEPT !.total = o.items[i].price * o.items[i].quantity]]
    IN  [o EXCEPT !.items = its,
                  !.pricing.subtotal = SumTotals(its),
                  !.pricing.total = SumTotals(its) + o.pricing.tax + o.pricing.shipping
                                        - o.pricing.discount]

\* order.save() rejects: the schema requires orderNumber and the built-in
\* validation runs before the pre('save') hook that generates it, or the
\* generated number is already in the unique index.  The catch answers 500.
OrderSaveRejected(s) ==
    /\ req[s].pc = "ord_save"
    /\ req' = [req EXCEPT ![s] = Finish(req[s], "ServerError")]
    /\ UNCHANGED <<products, users, sessions, orders, budget, categories, productCategory>>

\* order.save() stores the order under the number the pre('save') hook
\* generated from the clock and a random suffix.
OrderSave(s, number) ==
    /\ req[s].pc = "ord_save"
    /\ Len(orders) < MaxOrders
    /\ \A i \in 1..Len(orders) : orders[i].orderNumber # number
    /\ orders' = Append(orders, PreSaveOrder(NewOrder(number, req[s].sess.user,
                                    req[s].items, req[s].pricing, req[s].coupon)))
    /\ req' = [req EXCEPT ![s].pc = "ord_stock", ![s].k = 1, ![s].oid = Len(orders) + 1]
    /\ UNCHANGED <<products, users, sessions, budget, categories, productCategory>>

\* The array positions the positional operator of
\*   findOneAndUpdate({_id, 'variants.size': size, 'variants.color': color},
\*                    {$inc: {'variants.$.stock': -q, soldCount: q}})
\* may resolve to.  The filter matches a product that has a variant of that
\* size and a variant of that color; with two conditions on the array and no
\* $elemMatch the position is that of the first element satisfying one of
\* them, and which one is not fixed by the query.
PositionalTargets(vs, size, color) ==
    LET bySize == {i \in 1..Len(vs) : vs[i].size = size}
        byColor == {i \in 1..Len(vs) : vs[i].color = color}
        first(S) == CHOOSE i \in S : \A j \in S : i <= j
    IN  IF bySize = {} \/ byColor = {} THEN {}
        ELSE {first(bySize), first(byColor)}

\* The product after the $inc at position i: the stock of that variant and
\* soldCount change, nothing else does (totalStock is not recomputed and the
\* schema's min: 0 is not applied by an update).
IncStock(prod, i, qty) ==
    [prod EXCEPT !.variants[i].stock = @ - qty, !.soldCount = @ + qty]

\* One iteration of the stock loop.
OrderDecrement(s) ==
    /\ req[s].pc = "ord_stock"
    /\ LET r == req[s]
           it == r.items[r.k]
           prod == Lookup(products, it.product)
           targets == IF prod.exists
                      THEN PositionalTargets(prod.variants, it.size, it.color)
                      ELSE {}
           next == [r EXCEPT !.k = r.k + 1,
                             !.pc = IF r.k = Len(r.items) THEN "ord_clear"
                                    ELSE "ord_stock"]
       IN  /\ req' = [req EXCEPT ![s] = next]
           /\ IF targets = {}
              THEN UNCHANGED <<products, orders>>
              ELSE /\ \E i \in targets :
                        products' = [products EXCEPT ![it.product] =
                                        IncStock(prod, i, it.quantity)]
                   /\ orders' = [orders EXCEPT ![r.oid].decs = @ + 1]
    /\ UNCHANGED <<users, sessions, budget, categories, productCategory>>

\* user.cart = []; user.save(): the array is $set, guarded by the version.
\* A stale version rejects the save and the catch answers 500.
OrderClearCart(s) ==
    /\ req[s].pc = "ord_clear"
    /\ LET r == req[s]
           u == r.sess.user
       IN  IF ~r.vok
           THEN /\ req' = [req EXCEPT ![s] = Finish(r, "ServerError")]
                /\ orders' = [orders EXCEPT ![r.oid].closed = TRUE]
                /\ UNCHANGED users
           ELSE /\ users' = [users EXCEPT ![u].cart = <<>>]
                /\ req' = BumpVersion(
                            [req EXCEPT ![s].pc = "ord_push", ![s].ucart = <<>>,
                                        ![s].sess.cartCount = 0,
                                        ![s].dirty = (r.sess.cartCount # 0)], s, u)
                /\ UNCHANGED orders
    /\ UNCHANGED <<products, sessions, budget, categories, productCategory>>

\* User.findByIdAndUpdate(user._id, {$push: {orders: order._id}}), then 201.
OrderPush(s) ==
    /\ req[s].pc = "ord_push"
    /\ LET r == req[s]
       IN  /\ users' = [users EXCEPT ![r.sess.user].orders = Append(@, r.oid)]
           /\ sessions' = IF r.dirty THEN [sessions EXCEPT ![r.sid] = r.sess]
                                     ELSE sessions
           /\ orders' = [orders EXCEPT ![r.oid].closed = TRUE]
           /\ req' = [req EXCEPT ![s] = Finish(r, "ok")]
    /\ UNCHANGED <<products, budget, categories, productCategory>>

\* A database operation issued after the order was stored rejects (the
\* store is unreachable, the operation times out): the catch block answers
\* 500 and undoes nothing; the session is stored when the handler had
\* already set its cartCount.
OrderDbError(s) ==
    /\ req[s].pc \in {"ord_stock", "ord_clear", "ord_push"}
    /\ orders' = [orders EXCEPT ![req[s].oid].closed = TRUE]
    /\ sessions' = IF req[s].dirty THEN [sessions EXCEPT ![req[s].sid] = req[s].sess]
                                   ELSE sessions
    /\ req' = [req EXCEPT ![s] = Finish(req[s], "ServerError")]
    /\ UNCHANGED <<products, users, budget, categories, productCategory>>

\* --------------------------------------------------------- order status
\* The enum of orderSchema.status and of the route's body('status').isIn.
OrderStatuses ==
    {"pending", "confirmed", "processing", "shipped",
     "delivered", "cancelled", "returned", "refunded"}

\* A validator that lets every status through.
StatusValidAny(status) == TRUE

\* body('status').isIn([...])
StatusValid(status) == status \in OrderStatuses

\* Order.findOne({ orderNumber }): the index of the order, 0 for null.
FindOrder(os, number) ==
    LET hits == {i \in 1..Len(os) : os[i].orderNumber = number}
    IN  IF hits = {} THEN 0 ELSE CHOOSE i \in hits : TRUE

\* ----------------------------------------------------------- order read
\* A query that leaves the owner out.
OrderQueryAnyUser(sess, number) == FindOrder(orders, number)

\* Order.findOne(query) with query = { orderNumber } and, for a session
\* whose role is not admin, query.user = req.session.user.id: the index of
\* the order, 0 for null.
OrderQuery(sess, number) ==
    LET i == FindOrder(orders, number)
    IN  IF i # 0 /\ (sess.role = "admin" \/ orders[i].user = sess.user) THEN i ELSE 0

\* GET /api/orders/:orderNumber: isAuthenticated answers 401 without a
\* session user; a query that finds nothing answers 404 'Order not found'.
GetOrder(s, sid, number) ==
    /\ Accept
    /\ req[s].pc = "idle"
    /\ LET r0 == [IdleReq EXCEPT !.op = "get", !.sid = sid, !.number = number]
           done(result, i) == [Finish(r0, result) EXCEPT !.number = number, !.oid = i]
       IN  req' = [req EXCEPT ![s] =
                IF sessions[sid].user = NoUser THEN done("Unauthorized", 0)
                ELSE IF OrderQuery(sessions[sid], number) = 0
                THEN done("OrderNotFound", 0)
                ELSE done("ok", OrderQuery(sessions[sid], number))]
    /\ UNCHANGED <<products, users, sessions, orders, categories, productCategory>>

\* isAdmin: the session has a user whose role is admin.
IsAdmin(sess) == sess.user # NoUser /\ sess.role = "admin"

\* PUT /api/orders/:orderNumber/status arrives: isAdmin answers 403 to any
\* session but an administrator's, then the body is validated and the order
\* read.
StatusStart(s, sid, number, status, note) ==
    /\ Accept
    /\ req[s].pc = "idle"
    /\ LET i == FindOrder(orders, number)
           r0 == [IdleReq EXCEPT !.op = "status", !.sid = sid, !.number = number,
                                 !.status = status, !.note = note]
           done(result) == [Finish(r0, result) EXCEPT !.number = number,
                                                      !.status = status]
       IN  req' = [req EXCEPT ![s] =
                IF ~IsAdmin(sessions[sid]) THEN done("Forbidden")
                ELSE IF ~StatusValid(status) THEN done("ValidationFailed")
                ELSE IF i = 0 THEN done("OrderNotFound")
                ELSE [r0 EXCEPT !.oid = i, !.seen = orders[i].status,
                                !.pc = "st_save"]]
    /\ UNCHANGED <<products, users, sessions, orders, categories, productCategory>>

\* order.updateStatus(status, note): this.status = status, a push to
\* statusHistory, this.save().  The save validates the document (the status
\* against the enum) and sends the changes: $set status when the status
\* differs from the one read, $push statusHistory; a push carries no
\* version condition.  The pre('save') hook runs on every save and computes
\* the item totals, the subtotal and the total again.
StatusSave(s) ==
    /\ req[s].pc = "st_save"
    /\ LET r == req[s]
           done(result) == [Finish(r, result) EXCEPT !.number = r.number,
                                                     !.status = r.status, !.oid = r.oid]
       IN  IF r.status \notin OrderStatuses
           THEN /\ req' = [req EXCEPT ![s] = done("ServerError")]
                /\ UNCHANGED orders
           ELSE /\ orders' = [orders EXCEPT ![r.oid] =
                        PreSaveOrder(
                          [@ EXCEPT !.status = IF r.status # r.seen THEN r.status ELSE @,
                                    !.statusHistory =
                                      Append(@, [status |-> r.status, note |-> r.note])])]
                /\ req' = [req EXCEPT ![s] = done("ok")]
    /\ UNCHANGED <<products, users, sessions, budget, categories, productCategory>>

\* A shipping-info update that also marks the order as shipped.
ShippingUpdateMarksShipped(s, sid, number, tracking, carrier) ==
    /\ Accept
    /\ req[s].pc = "idle"
    /\ LET i == FindOrder(orders, number)
           r0 == [IdleReq EXCEPT !.op = "shipping", !.sid = sid, !.number = number]
           done(result) == [Finish(r0, result) EXCEPT !.number = number, !.oid = i]
       IN  IF ~IsAdmin(sessions[sid])
           THEN /\ req' = [req EXCEPT ![s] = done("Forbidden")]
                /\ UNCHANGED orders
           ELSE IF i = 0
           THEN /\ req' = [req EXCEPT ![s] = done("OrderNotFound")]
                /\ UNCHANGED orders
           ELSE /\ orders' = [orders EXCEPT ![i].tracking = tracking,
                                            ![i].carrier = carrier,
                                            ![i].status = "shipped"]
                /\ req' = [req EXCEPT ![s] = done("ok")]
    /\ UNCHANGED <<products, users, sessions, categories, productCategory>>

\* PUT /api/orders/:orderNumber/shipping, behind isAdmin:
\* Order.findOneAndUpdate({ orderNumber }, {$set: {shipping.trackingNumber,
\* shipping.carrier, shipping.estimatedDelivery}}), one operation, no save
\* hook.
ShippingUpdate(s, sid, number, tracking, carrier) ==
    /\ Accept
    /\ req[s].pc = "idle"
    /\ LET i == FindOrder(orders, number)
           r0 == [IdleReq EXCEPT !.op = "shipping", !.sid = sid, !.number = number]
           done(result) == [Finish(r0, result) EXCEPT !.number = number, !.oid = i]
       IN  IF ~IsAdmin(sessions[sid])
           THEN /\ req' = [req EXCEPT ![s] = done("Forbidden")]
                /\ UNCHANGED orders
           ELSE IF i = 0
           THEN /\ req' = [req EXCEPT ![s] = done("OrderNotFound")]
                /\ UNCHANGED orders
           ELSE /\ orders' = [orders EXCEPT ![i].tracking = tracking,
                                            ![i].carrier = carrier]
                /\ req' = [req EXCEPT ![s] = done("ok")]
    /\ UNCHANGED <<products, users, sessions, categories, productCategory>>

\* -------------------------------------------------- product maintenance
\* PUT /api/products/:id with a body that carries variants and/or isActive:
\* Product.findByIdAndUpdate(id, updateData) sets the fields of the body
\* and runs no save hook.
AdminUpdate(pid, setVariants, vs, setActive, active) ==
    /\ Accept
    /\ products[pid].exists
    /\ products' = [products EXCEPT ![pid] =
            [@ EXCEPT !.variants = IF setVariants THEN vs ELSE @,
                      !.isActive = IF setActive THEN active ELSE @]]
    /\ UNCHANGED <<users, sessions, orders, req, categories, productCategory>>

\* PUT /api/products/:id with a body that carries a price.
AdminReprice(pid, price) ==
    /\ Accept
    /\ products[pid].exists
    /\ products' = [products EXCEPT ![pid].price = price]
    /\ UNCHANGED <<users, sessions, orders, req, categories, productCategory>>

\* POST /api/products: new Product(body).save(); the body names the
\* category, which is stored as given.
AdminCreate(pid, vs, cat) ==
    /\ Accept
    /\ ~products[pid].exists
    /\ products' = [products EXCEPT ![pid] = SavedProduct(BasePrice(pid), TRUE, vs, 0)]
    /\ productCategory' = [productCategory EXCEPT ![pid] = cat]
    /\ UNCHANGED <<users, sessions, orders, req, categories>>

\* GET /product/:slug (the detail page): the product is read, viewCount is
\* incremented on the copy, then product.save() runs the pre('save') hook on
\* the copy and stores the paths that changed: viewCount, set to the value
\* of the copy, and totalStock when the hook changed it.
\* product.viewCount += 1 on the copy read, stored by save() as a $set.
ViewWrite(prod, read) == [prod EXCEPT !.viewCount = read + 1]

ViewStart(s, pid) ==
    /\ Accept
    /\ req[s].pc = "idle"
    /\ LET prod == FindActive(products, pid)
           r0 == [IdleReq EXCEPT !.op = "view", !.pid = pid]
       IN  req' = [req EXCEPT ![s] =
                IF ~prod.exists THEN Finish(r0, "ProductNotFound")
                ELSE [r0 EXCEPT !.vstock = SumStock(prod.variants),
                                !.k = prod.totalStock, !.views = prod.viewCount,
                                !.pc = "view_save"]]
    /\ UNCHANGED <<products, users, sessions, orders, categories, productCategory>>

ViewSave(s) ==
    /\ req[s].pc = "view_save"
    /\ products' = [products EXCEPT ![req[s].pid] =
                        ViewWrite([@ EXCEPT !.totalStock =
                                        IF req[s].vstock # req[s].k
                                        THEN req[s].vstock ELSE @,
                                            !.fetched = @ + 1],
                                  req[s].views)]
    /\ req' = [req EXCEPT ![s] = Finish(req[s], "ok")]
    /\ UNCHANGED <<users, sessions, orders, budget, categories, productCategory>>

\* GET /api/products/:identifier: Product.findOne({..., isActive: true}),
\* 404 when there is none; with ?admin the product is returned as it is.
ApiFetchStart(s, pid, admin) ==
    /\ Accept
    /\ req[s].pc = "idle"
    /\ LET prod == FindActive(products, pid)
           r0 == [IdleReq EXCEPT !.op = "fetch", !.pid = pid]
       IN  req' = [req EXCEPT ![s] =
                IF ~prod.exists THEN Finish(r0, "ProductNotFound")
                ELSE IF admin THEN Finish(r0, "ok")
                ELSE [r0 EXCEPT !.pc = "api_inc"]]
    /\ UNCHANGED <<products, users, sessions, orders, categories, productCategory>>

\* Product.findByIdAndUpdate(product._id, {$inc: {viewCount: 1}}), then the
\* product is sent.
ApiFetchInc(s) ==
    /\ req[s].pc = "api_inc"
    /\ products' = [products EXCEPT ![req[s].pid].viewCount = @ + 1,
                                    ![req[s].pid].fetched = @ + 1]
    /\ req' = [req EXCEPT ![s] = Finish(req[s], "ok")]
    /\ UNCHANGED <<users, sessions, orders, budget, categories, productCategory>>

\* ------------------------------------------------------------ categories
\* No document under the id.
NoCategoryDoc ==
    [exists |-> FALSE, isActive |-> FALSE, parentCategory |-> NoCategory,
     subCategories |-> <<>>]

\* new Category({name, ..., parentCategory: parentCategory || null}), with
\* the schema defaults.
NewCategory(parent) ==
    [exists |-> TRUE, isActive |-> TRUE, parentCategory |-> parent,
     subCategories |-> <<>>]

\* One top-level category, which the products on sale are in.
SeedCategories ==
    [c \in CategoryIds |-> IF c = "c1" THEN NewCategory(NoCategory) ELSE NoCategoryDoc]

SeedProductCategory(prods) ==
    [p \in ProductIds |-> IF prods[p].exists THEN "c1" ELSE NoCategory]

\* POST /api/categories with a new name: category.save() under a new id c.
\* The body's parentCategory is checked to have the form of an id.
CategoryCreate(s, c, parent) ==
    /\ Accept
    /\ req[s].pc = "idle"
    /\ ~categories[c].exists
    /\ categories' = [categories EXCEPT ![c] = NewCategory(parent)]
    /\ LET r0 == [IdleReq EXCEPT !.op = "ccreate", !.cat = c, !.parent = parent]
       IN  req' = [req EXCEPT ![s] =
                IF parent # NoCategory THEN [r0 EXCEPT !.pc = "cat_push"]
                ELSE [Finish(r0, "ok") EXCEPT !.cat = c]]
    /\ UNCHANGED <<products, users, sessions, orders, productCategory>>

\* Category.findByIdAndUpdate(parentCategory, {$push: {subCategories}}):
\* nothing happens when no document has the id.
CategoryPush(s) ==
    /\ req[s].pc = "cat_push"
    /\ LET r == req[s]
       IN  /\ categories' = IF categories[r.parent].exists
                             THEN [categories EXCEPT ![r.parent].subCategories =
                                        Append(@, r.cat)]
                             ELSE categories
           /\ req' = [req EXCEPT ![s] = [Finish(r, "ok") EXCEPT !.cat = r.cat]]
    /\ UNCHANGED <<products, users, sessions, orders, budget, productCategory>>

\* PUT /api/categories/:id with a body that carries parentCategory and
\* isActive: Category.findByIdAndUpdate(id, updateData).
CategoryUpdate(c, parent, active) ==
    /\ Accept
    /\ categories[c].exists
    /\ categories' = [categories EXCEPT ![c].parentCategory = parent,
                                        ![c].isActive = active]
    /\ UNCHANGED <<products, users, sessions, orders, req, productCategory>>

\* Product.countDocuments({ category: id })
ProductCount(c) ==
    Cardinality({p \in ProductIds : products[p].exists /\ productCategory[p] = c})

\* Category.countDocuments({ parentCategory: id })
SubcategoryCount(c) ==
    Cardinality({d \in CategoryIds : categories[d].exists
                                      /\ categories[d].parentCategory = c})

\* if (productCount > 0), if (subcategoryCount > 0)
DeleteBlocked(count) == count > 0

\* DELETE /api/categories/:id arrives: the products of the category are
\* counted.
CategoryDeleteStart(s, c) ==
    /\ Accept
    /\ req[s].pc = "idle"
    /\ LET r0 == [IdleReq EXCEPT !.op = "cdelete", !.cat = c]
       IN  req' = [req EXCEPT ![s] =
                IF DeleteBlocked(ProductCount(c))
                THEN [Finish(r0, "HasProducts") EXCEPT !.cat = c]
                ELSE [r0 EXCEPT !.pc = "cdel_subs"]]
    /\ UNCHANGED <<products, users, sessions, orders, categories, productCategory>>

\* The subcategories are counted.
CategoryDeleteSubs(s) ==
    /\ req[s].pc = "cdel_subs"
    /\ LET r == req[s]
       IN  req' = [req EXCEPT ![s] =
                IF DeleteBlocked(SubcategoryCount(r.cat))
                THEN [Finish(r, "HasSubcategories") EXCEPT !.cat = r.cat]
                ELSE [r EXCEPT !.pc = "cdel_update"]]
    /\ UNCHANGED <<products, users, sessions, orders, budget, categories, productCategory>>

\* Category.findByIdAndUpdate(id, { isActive: false }, { new: true })
CategoryDeleteUpdate(s) ==
    /\ req[s].pc = "cdel_update"
    /\ LET r == req[s]
           doc == categories[r.cat]
       IN  IF ~doc.exists
           THEN /\ req' = [req EXCEPT ![s] =
                        [Finish(r, "CategoryNotFound") EXCEPT !.cat = r.cat]]
                /\ UNCHANGED categories
           ELSE /\ categories' = [categories EXCEPT ![r.cat].isActive = FALSE]
                /\ req' = [req EXCEPT ![s] =
                        IF doc.parentCategory # NoCategory
                        THEN [r EXCEPT !.parent = doc.parentCategory, !.pc = "cdel_pull"]
                        ELSE [Finish(r, "ok") EXCEPT !.cat = r.cat]]
    /\ UNCHANGED <<products, users, sessions, orders, budget, productCategory>>

\* Category.findByIdAndUpdate(parentCategory, {$pull: {subCategories}})
CategoryDeletePull(s) ==
    /\ req[s].pc = "cdel_pull"
    /\ LET r == req[s]
       IN  /\ categories' = IF categories[r.parent].exists
                             THEN [categories EXCEPT ![r.parent].subCategories =
                                        SelectSeq(@, LAMBDA d : d # r.cat)]
                             ELSE categories
           /\ req' = [req EXCEPT ![s] = [Finish(r, "ok") EXCEPT !.cat = r.cat]]
    /\ UNCHANGED <<products, users, sessions, orders, budget, productCategory>>

\* ----------------------------------------------------------- cart: View
\* The lines GET /api/cart goes on with: those whose product resolved to an
\* active document (user cart: populate, then filter on item.product &&
\* item.product.isActive; guest cart: Product.find({isActive: true}), then
\* filter on item.product).
ViewResolved(cart, prods) ==
    SelectSeq(cart, LAMBDA ln : Lookup(prods, ln.product).exists
                                /\ Lookup(prods, ln.product).isActive)

\* The entry the totals loop pushes for a resolved line.
ViewEntry(ln, prods) ==
    LET vs == Lookup(prods, ln.product).variants
        vi == FindVariant(vs, ln.size, ln.color)
    IN  IF vi > 0 /\ vs[vi].stock >= ln.quantity
        THEN [line |-> ln, inStock |-> TRUE,
              itemPrice |-> ItemPrice(Lookup(prods, ln.product), ln.size, ln.color),
              itemTotal |-> ItemPrice(Lookup(prods, ln.product), ln.size, ln.color)
                                * ln.quantity,
              availableStock |-> vs[vi].stock]
        ELSE [line |-> ln, inStock |-> FALSE,
              itemPrice |-> Lookup(prods, ln.product).price, itemTotal |-> 0,
              availableStock |-> IF vi > 0 THEN vs[vi].stock ELSE 0]

ViewItems(cart, prods) ==
    [i \in 1..Len(ViewResolved(cart, prods)) |->
        ViewEntry(ViewResolved(cart, prods)[i], prods)]

RECURSIVE ViewSubtotal(_)
ViewSubtotal(entries) ==
    IF entries = <<>> THEN 0
    ELSE Head(entries).itemTotal + ViewSubtotal(Tail(entries))

\* GET /api/cart: the answer carries the items, their count and the
\* subtotal; nothing is written.
ViewCart(s, sid) ==
    /\ Accept
    /\ req[s].pc = "idle"
    /\ LET cart == IF sessions[sid].user # NoUser THEN users[sessions[sid].user].cart
                   ELSE IF sessions[sid].hasCart THEN sessions[sid].cart ELSE <<>>
           entries == ViewItems(cart, products)
       IN  req' = [req EXCEPT ![s] =
                [Finish([IdleReq EXCEPT !.op = "cart", !.sid = sid], "ok")
                    EXCEPT !.items = entries, !.k = Len(entries),
                           !.subtotal = ViewSubtotal(entries)]]
    /\ UNCHANGED <<products, users, sessions, orders, categories, productCategory>>

\* ------------------------------------------------- cart specifications
CartSessions == {"s1"}
CartUsers == {"u1"}

NoOrders == <<>>

\* The catalog the cart handlers run against: p1 is on sale in two sizes of
\* one color, p2 is either not in the collection or deactivated.
CartCatalog(a, gone) ==
    [p \in ProductIds |->
        IF p = "p1"
        THEN SavedProduct(BasePrice(p), TRUE,
                          <<Variant("S", "White", a),
                            PricedVariant("M", "White", MaxStock,
                                          VariantPrice(p, "M", "White"))>>, 0)
        ELSE IF gone THEN NoProduct
        ELSE SavedProduct(BasePrice(p), FALSE, <<Variant("S", "White", MaxStock)>>, 0)]

InitCart ==
    /\ \E a \in 0..MaxStock, gone \in BOOLEAN : products = CartCatalog(a, gone)
    /\ users = [u \in UserIds |-> NewUser]
    /\ sessions = [sid \in SessionIds |-> GuestSession]
    /\ orders = NoOrders
    /\ req = [s \in Slots |-> IdleReq]
    /\ budget = -1
    /\ categories = SeedCategories
    /\ productCategory = SeedProductCategory(products)

\* One request at a time, any number of them.
NextCart ==
    \/ \E sid \in CartSessions, pid \in ProductIds, size \in SizeVals,
          color \in ColorVals, qty \in 1..MaxQty :
            AddStart(1, sid, pid, size, color, qty)
    \/ AddGuest(1)
    \/ AddUserRead(1)
    \/ AddUserSave(1)
    \/ \E sid \in CartSessions, pid \in ProductIds, size \in SizeVals,
          color \in ColorVals, qty \in 0..MaxQty :
            UpdateStart(1, sid, pid, size, color, qty)
    \/ UpdateGuest(1)
    \/ UpdateUserRead(1)
    \/ UpdateUserSave(1)
    \/ \E sid \in CartSessions, pid \in ProductIds, size \in SizeVals,
          color \in ColorVals :
            RemoveStart(1, sid, pid, size, color)
    \/ RemoveGuest(1)
    \/ RemoveUserRead(1)
    \/ RemoveUserSave(1)
    \/ \E sid \in CartSessions : ClearStart(1, sid)
    \/ ClearFinish(1)
    \/ \E sid \in CartSessions : TransferStart(1, sid)
    \/ TransferRead(1)
    \/ TransferSave(1)
    \/ \E sid \in CartSessions, u \in CartUsers : LoginStart(1, sid, u)
    \/ LoginFinish(1)
    \/ Release(1)

SpecCart == InitCart /\ [][NextCart]_vars

\* Overlapping requests of one logged-in session on the user's cart.  The
\* session logged in with or without a line in its guest cart, and the user
\* has or has not a line in the stored cart.
LoggedIn(u, guestCart, n) ==
    [user |-> u, role |-> "user", hasCart |-> guestCart # <<>>, cart |-> guestCart,
     cartCount |-> n]

\* The session of an administrator.
AdminSession(u) == [LoggedIn(u, <<>>, 0) EXCEPT !.role = "admin"]

InitCartConc ==
    /\ products = CartCatalog(MaxStock, TRUE)
    /\ \E uc \in {<<>>, <<Line("p1", "S", "White", 1)>>},
          gc \in {<<>>, <<Line("p1", "S", "White", 1)>>, <<Line("p1", "M", "White", 1)>>} :
         /\ users = [u \in UserIds |-> IF u = "u1" THEN [NewUser EXCEPT !.cart = uc]
                                       ELSE NewUser]
         /\ sessions = [sid \in SessionIds |->
                           IF sid = "s1" THEN LoggedIn("u1", gc, Len(uc))
                           ELSE GuestSession]
    /\ orders = NoOrders
    /\ req = [s \in Slots |-> IdleReq]
    /\ budget = MaxReqs
    /\ categories = SeedCategories
    /\ productCategory = SeedProductCategory(products)

NextCartConc ==
    \/ \E s \in Slots, sid \in CartSessions, size \in SizeVals :
            AddStart(s, sid, "p1", size, "White", 1)
    \/ \E s \in Slots : AddUserRead(s)
    \/ \E s \in Slots : AddUserSave(s)
    \/ \E s \in Slots, sid \in CartSessions, size \in SizeVals, qty \in 0..1 :
            UpdateStart(s, sid, "p1", size, "White", qty)
    \/ \E s \in Slots : UpdateUserRead(s)
    \/ \E s \in Slots : UpdateUserSave(s)
    \/ \E s \in Slots, sid \in CartSessions, size \in SizeVals :
            RemoveStart(s, sid, "p1", size, "White")
    \/ \E s \in Slots : RemoveUserRead(s)
    \/ \E s \in Slots : RemoveUserSave(s)
    \/ \E s \in Slots, sid \in CartSessions : ClearStart(s, sid)
    \/ \E s \in Slots : ClearFinish(s)
    \/ \E s \in Slots, sid \in CartSessions : TransferStart(s, sid)
    \/ \E s \in Slots : TransferRead(s)
    \/ \E s \in Slots : TransferSave(s)
    \/ \E s \in Slots : Release(s)

SpecCartConc == InitCartConc /\ [][NextCartConc]_vars

\* -------------------------------------------------- view specification
\* Carts as earlier requests and later catalog changes left them: lines of
\* p1 in a size on sale, in a color that is no longer offered, and of p2,
\* which was deactivated or deleted after it was added.
ViewLines ==
    {Line("p1", "S", "White", q) : q \in 1..MaxQty}
        \cup {Line("p1", "M", "White", 1), Line("p1", "S", "Black", 1),
               Line("p2", "S", "White", 1)}

ViewCarts ==
    {<<>>} \cup {<<a>> : a \in ViewLines}
           \cup {<<a, b>> : a \in ViewLines, b \in {Line("p1", "M", "White", 1),
                                                     Line("p2", "S", "White", 1)}}

InitView ==
    /\ \E a \in 0..MaxStock, gone \in BOOLEAN : products = CartCatalog(a, gone)
    /\ \E c \in ViewCarts, asUser \in BOOLEAN :
         /\ users = [u \in UserIds |->
                        IF u = "u1" /\ asUser THEN [NewUser EXCEPT !.cart = c]
                        ELSE NewUser]
         /\ sessions = [sid \in SessionIds |->
                IF sid # "s1" THEN GuestSession
                ELSE IF asUser THEN LoggedIn("u1", <<>>, Len(c))
                ELSE [GuestSession EXCEPT !.hasCart = TRUE, !.cart = c,
                                          !.cartCount = Len(c)]]
    /\ orders = NoOrders
    /\ req = [s \in Slots |-> IdleReq]
    /\ budget = -1
    /\ categories = SeedCategories
    /\ productCategory = SeedProductCategory(products)

NextView ==
    \/ \E sid \in CartSessions : ViewCart(1, sid)
    \/ \E b \in BOOLEAN :
         AdminUpdate("p1", FALSE, products["p1"].variants, TRUE, b)
    \/ Release(1)

SpecView == InitView /\ [][NextView]_vars

\* ------------------------------------------------- order specification
\* p1 is the seeded product in two sizes and two colors; p2 was deactivated
\* after it had been added to carts.
OrderCatalog(st) ==
    [p \in ProductIds |->
        IF p = "p1"
        THEN SavedProduct(BasePrice(p), TRUE,
                          <<Variant("S", "White", st),
                            PricedVariant("M", "White", st, VariantPrice(p, "M", "White")),
                            Variant("S", "Black", st),
                            PricedVariant("M", "Black", st, VariantPrice(p, "M", "Black"))>>,
                          0)
        ELSE SavedProduct(BasePrice(p), FALSE, <<Variant("S", "White", st)>>, 0)]

\* The carts u1 checks out with: one or two lines with distinct keys.  u2
\* checks out with one unit of (S, White), which u1's two-line cart holds
\* too.
SeedCarts ==
    {<<Line("p1", "M", "Black", q)>> : q \in 1..MaxQty}
        \cup {<<Line("p1", "M", "Black", 1), b>> :
                b \in {Line("p1", "S", "White", 1), Line("p2", "S", "White", 1)}}

InitOrder ==
    /\ \E st \in 1..MaxStock : products = OrderCatalog(st)
    /\ \E c1 \in SeedCarts, c2 \in {<<Line("p1", "S", "White", 1)>>} :
         /\ users = [u \in UserIds |->
                        [NewUser EXCEPT !.cart = IF u = "u1" THEN c1 ELSE c2]]
         /\ sessions = [sid \in SessionIds |->
                IF sid = "s1" THEN LoggedIn("u1", <<>>, Len(c1))
                ELSE LoggedIn("u2", <<>>, Len(c2))]
    /\ orders = NoOrders
    /\ req = [s \in Slots |-> IdleReq]
    /\ budget = MaxReqs
    /\ categories = SeedCategories
    /\ productCategory = SeedProductCategory(products)

\* Up to two checkouts, of one session or of two, overlap with each other
\* and with the administrator restocking the first variant of p1 and
\* (de)activating p1.
NextOrder ==
    \/ \E s \in Slots, sid \in SessionIds : OrderStart(s, sid)
    \/ \E s \in Slots : OrderSaveRejected(s)
    \/ \E s \in Slots, n \in OrderNumbers : OrderSave(s, n)
    \/ \E s \in Slots : OrderDecrement(s)
    \/ \E s \in Slots : OrderClearCart(s)
    \/ \E s \in Slots : OrderPush(s)
    \/ \E s \in Slots : OrderDbError(s)
    \/ \E st \in 0..MaxStock, b \in BOOLEAN :
         AdminUpdate("p1", TRUE, [products["p1"].variants EXCEPT ![1].stock = st],
                     TRUE, b)

SpecOrder == InitOrder /\ [][NextOrder]_vars

\* Two checkouts of different users, one per session, and nothing else.
SessionOf(s) == IF s = 1 THEN "s1" ELSE "s2"

NextCheckout ==
    \/ \E s \in Slots : OrderStart(s, SessionOf(s))
    \/ \E s \in Slots : OrderSaveRejected(s)
    \/ \E s \in Slots, n \in OrderNumbers : OrderSave(s, n)
    \/ \E s \in Slots : OrderDecrement(s)
    \/ \E s \in Slots : OrderClearCart(s)
    \/ \E s \in Slots : OrderPush(s)
    \/ \E s \in Slots : OrderDbError(s)

SpecCheckout == InitOrder /\ [][NextCheckout]_vars

\* ----------------------------------------------- pricing specification
\* One user checks out a cart of one or two lines, with every kind of coupon
\* a request body may carry; every variant has stock for the largest line.
PricedCarts ==
    {<<Line("p1", "M", "Black", q)>> : q \in 1..MaxPricedQty}
        \cup {<<Line("p1", "S", "White", q), Line("p1", "M", "Black", 1)>> :
                q \in 1..MaxPricedQty}

Coupons ==
    {NoCoupon,
     [code |-> "SAVE10", type |-> "percentage", discount |-> 0],
     [code |-> "OTHER", type |-> "fixed", discount |-> 500]}
        \cup {[code |-> "SAVE10", type |-> "fixed", discount |-> d] :
                d \in {-500, 0, 500, 50000}}

InitPricing ==
    /\ products = OrderCatalog(MaxPricedQty)
    /\ \E c \in PricedCarts :
         users = [u \in UserIds |->
                    IF u = "u1" THEN [NewUser EXCEPT !.cart = c] ELSE NewUser]
    /\ sessions = [sid \in SessionIds |->
            IF sid = "s1" THEN LoggedIn("u1", <<>>, Len(users["u1"].cart))
            ELSE GuestSession]
    /\ orders = NoOrders
    /\ req = [s \in Slots |-> IdleReq]
    /\ budget = MaxReqs
    /\ categories = SeedCategories
    /\ productCategory = SeedProductCategory(products)

NextPricing ==
    \/ \E c \in Coupons : OrderStartWith(1, "s1", c)
    \/ OrderSaveRejected(1)
    \/ \E n \in OrderNumbers : OrderSave(1, n)
    \/ OrderDecrement(1)
    \/ OrderClearCart(1)
    \/ OrderPush(1)
    \/ OrderDbError(1)

SpecPricing == InitPricing /\ [][NextPricing]_vars

\* ------------------------------------------------ status specification
\* An order as checkout left it, and an administrator sending up to MaxReqs
\* status updates, two of which may overlap.
StatusInputs == {"pending", "confirmed", "shipped", "delivered", "cancelled", "bogus"}

PlacedCoupon == [code |-> "SAVE10", type |-> "fixed", discount |-> 500]

PlacedItems == OrderItems(<<Line("p1", "S", "White", 1)>>, OrderCatalog(MaxStock))

PlacedOrder ==
    [PreSaveOrder(NewOrder("ORD-1", "u1", PlacedItems,
                           OrderPricing(PlacedItems, PlacedCoupon),
                           PlacedCoupon))
        EXCEPT !.decs = 1, !.closed = TRUE]

InitStatus ==
    /\ products = OrderCatalog(MaxStock)
    /\ users = [u \in UserIds |->
                    IF u = "u1" THEN [NewUser EXCEPT !.orders = <<1>>]
                    ELSE [NewUser EXCEPT !.role = "admin"]]
    /\ sessions = [sid \in SessionIds |->
                    IF sid = "s2" THEN AdminSession("u2") ELSE GuestSession]
    /\ orders = <<PlacedOrder>>
    /\ req = [s \in Slots |-> IdleReq]
    /\ budget = MaxReqs
    /\ categories = SeedCategories
    /\ productCategory = SeedProductCategory(products)

NextStatus ==
    \/ \E s \in Slots, n \in OrderNumbers, st \in StatusInputs :
            StatusStart(s, "s2", n, st, "")
    \/ \E s \in Slots : StatusSave(s)
    \/ \E s \in Slots, n \in OrderNumbers, t \in {"", "TRK1"} :
            ShippingUpdate(s, "s2", n, t, "")
    \/ \E s \in Slots : Release(s)

SpecStatus == InitStatus /\ [][NextStatus]_vars

\* ---------------------------------------------- snapshot specification
\* u1 checks out while the administrator changes the price of p1, replaces
\* its variants (other variant prices, or none left) and (de)activates it;
\* the status of the stored orders is updated in between.
SnapshotCarts ==
    {<<Line("p1", "S", "White", 1)>>, <<Line("p1", "M", "Black", 1)>>,
     <<Line("p1", "S", "White", 1), Line("p1", "M", "Black", 1)>>}

\* The prices the administrator sets, in cents.
NewPrices == {3999}
NewVariantPrices == {7999}

SnapshotVariants(vs) ==
    {<<>>} \cup {[i \in 1..Len(vs) |->
                    IF "price" \in DOMAIN vs[i]
                    THEN [vs[i] EXCEPT !.price = vp] ELSE vs[i]] :
                 vp \in NewVariantPrices}

InitSnapshot ==
    /\ products = OrderCatalog(MaxStock)
    /\ \E c1 \in SnapshotCarts :
         /\ users = [u \in UserIds |->
                        IF u = "u1" THEN [NewUser EXCEPT !.cart = c1]
                        ELSE [NewUser EXCEPT !.role = "admin"]]
         /\ sessions = [sid \in SessionIds |->
                IF sid = "s1" THEN LoggedIn("u1", <<>>, Len(c1))
                ELSE AdminSession("u2")]
    /\ orders = NoOrders
    /\ req = [s \in Slots |-> IdleReq]
    /\ budget = MaxReqs
    /\ categories = SeedCategories
    /\ productCategory = SeedProductCategory(products)

NextSnapshot ==
    \/ OrderStart(1, "s1")
    \/ OrderSaveRejected(1)
    \/ \E n \in OrderNumbers : OrderSave(1, n)
    \/ OrderDecrement(1)
    \/ OrderClearCart(1)
    \/ OrderPush(1)
    \/ OrderDbError(1)
    \/ Release(1)
    \/ \E price \in NewPrices : AdminReprice("p1", price)
    \/ \E vs \in SnapshotVariants(products["p1"].variants) :
            AdminUpdate("p1", TRUE, vs, FALSE, TRUE)
    \/ \E b \in BOOLEAN : AdminUpdate("p1", FALSE, <<>>, TRUE, b)
    \/ \E n \in OrderNumbers : StatusStart(2, "s2", n, "shipped", "")
    \/ StatusSave(2)
    \/ Release(2)

SpecSnapshot == InitSnapshot /\ [][NextSnapshot]_vars

\* ---------------------------------------------- category specification
\* The administrator creates, updates and deletes categories and creates
\* the product p2, up to MaxReqs requests that may overlap.
InitCategory ==
    /\ products = CartCatalog(MaxStock, TRUE)
    /\ users = [u \in UserIds |-> NewUser]
    /\ sessions = [sid \in SessionIds |-> GuestSession]
    /\ orders = NoOrders
    /\ req = [s \in Slots |-> IdleReq]
    /\ budget = MaxReqs
    /\ categories = SeedCategories
    /\ productCategory = SeedProductCategory(products)

NextCategory ==
    \/ \E s \in Slots, c \in CategoryIds, parent \in CategoryIds \cup {NoCategory} :
            CategoryCreate(s, c, parent)
    \/ \E s \in Slots : CategoryPush(s)
    \/ \E c \in CategoryIds, parent \in CategoryIds \cup {NoCategory} :
            CategoryUpdate(c, parent, TRUE)
    \/ \E s \in Slots, c \in CategoryIds : CategoryDeleteStart(s, c)
    \/ \E s \in Slots : CategoryDeleteSubs(s)
    \/ \E s \in Slots : CategoryDeleteUpdate(s)
    \/ \E s \in Slots : CategoryDeletePull(s)
    \/ \E cat \in CategoryIds : AdminCreate("p2", <<Variant("S", "White", 1)>>, cat)
    \/ \E s \in Slots : Release(s)

SpecCategory == InitCategory /\ [][NextCategory]_vars

\* -------------------------------------------------- views specification
\* Up to MaxReqs fetches of p1 and p2 through the API and the detail page,
\* which may overlap.
InitViews ==
    /\ products = CartCatalog(MaxStock, FALSE)
    /\ users = [u \in UserIds |-> NewUser]
    /\ sessions = [sid \in SessionIds |-> GuestSession]
    /\ orders = NoOrders
    /\ req = [s \in Slots |-> IdleReq]
    /\ budget = MaxReqs
    /\ categories = SeedCategories
    /\ productCategory = SeedProductCategory(products)

NextViews ==
    \/ \E s \in Slots, pid \in ProductIds : ViewStart(s, pid)
    \/ \E s \in Slots : ViewSave(s)
    \/ \E s \in Slots, pid \in ProductIds, admin \in BOOLEAN : ApiFetchStart(s, pid, admin)
    \/ \E s \in Slots : ApiFetchInc(s)
    \/ \E s \in Slots : Release(s)

SpecViews == InitViews /\ [][NextViews]_vars

\* ------------------------------------------------- access specification
\* u1 placed ORD-1.  s1 is a guest or u1's session, s2 is the session of u2,
\* a customer or an administrator; both read orders and send status and
\* shipping updates.
InitAccess ==
    /\ products = OrderCatalog(MaxStock)
    /\ \E role \in {"user", "admin"}, in1 \in BOOLEAN :
         /\ users = [u \in UserIds |->
                        IF u = "u1" THEN [NewUser EXCEPT !.orders = <<1>>]
                        ELSE [NewUser EXCEPT !.role = role]]
         /\ sessions = [sid \in SessionIds |->
                IF sid = "s2" THEN [LoggedIn("u2", <<>>, 0) EXCEPT !.role = role]
                ELSE IF in1 THEN LoggedIn("u1", <<>>, 0) ELSE GuestSession]
    /\ orders = <<PlacedOrder>>
    /\ req = [s \in Slots |-> IdleReq]
    /\ budget = MaxReqs
    /\ categories = SeedCategories
    /\ productCategory = SeedProductCategory(products)

NextAccess ==
    \/ \E s \in Slots, sid \in SessionIds, n \in OrderNumbers : GetOrder(s, sid, n)
    \/ \E s \in Slots, sid \in SessionIds, n \in OrderNumbers :
            StatusStart(s, sid, n, "shipped", "")
    \/ \E s \in Slots : StatusSave(s)
    \/ \E s \in Slots, sid \in SessionIds, n \in OrderNumbers :
            ShippingUpdate(s, sid, n, "TRK1", "")
    \/ \E s \in Slots : Release(s)

SpecAccess == InitAccess /\ [][NextAccess]_vars

\* ------------------------------------------------- signup specification
\* One browser session, one request at a time, up to MaxReqs of them: the
\* guest fills a cart, registers as u2 or logs in as u1, and goes on with
\* the cart.
InitSignup ==
    /\ products = CartCatalog(MaxStock, TRUE)
    /\ users = [u \in UserIds |-> IF u = "u1" THEN NewUser ELSE Unregistered]
    /\ sessions = [sid \in SessionIds |-> GuestSession]
    /\ orders = NoOrders
    /\ req = [s \in Slots |-> IdleReq]
    /\ budget = MaxReqs
    /\ categories = SeedCategories
    /\ productCategory = SeedProductCategory(products)

NextSignup ==
    \/ \E size \in SizeVals, qty \in 1..MaxQty : AddStart(1, "s1", "p1", size, "White", qty)
    \/ AddGuest(1)
    \/ AddUserRead(1)
    \/ AddUserSave(1)
    \/ ClearStart(1, "s1")
    \/ ClearFinish(1)
    \/ \E u \in UserIds : Register(1, "s1", u)
    \/ \E u \in UserIds : LoginStart(1, "s1", u)
    \/ LoginFinish(1)
    \/ Release(1)

SpecSignup == InitSignup /\ [][NextSignup]_vars

\* ----------------------------------------------- catalog specification
\* Product documents under the administrator's creates and updates and the
\* detail page's save.
InitCatalog ==
    /\ \E st \in 0..MaxStock : products = CartCatalog(st, TRUE)
    /\ users = [u \in UserIds |-> NewUser]
    /\ sessions = [sid \in SessionIds |-> GuestSession]
    /\ orders = NoOrders
    /\ req = [s \in Slots |-> IdleReq]
    /\ budget = MaxReqs
    /\ categories = SeedCategories
    /\ productCategory = SeedProductCategory(products)

NextCatalog ==
    \/ \E pid \in ProductIds, st \in 0..MaxStock, b \in BOOLEAN :
         \E i \in 1..Len(products[pid].variants) :
            AdminUpdate(pid, TRUE, [products[pid].variants EXCEPT ![i].stock = st],
                        TRUE, b)
    \/ \E pid \in ProductIds, st \in 0..MaxStock :
         AdminCreate(pid, <<Variant("S", "White", st)>>, "c1")
    \/ \E s \in Slots, pid \in ProductIds : ViewStart(s, pid)
    \/ \E s \in Slots : ViewSave(s)
    \/ \E s \in Slots : Release(s)

SpecCatalog == InitCatalog /\ [][NextCatalog]_vars

\* ------------------------------------------------------------- claims
\* The cart a session works on: the user's stored cart once it has a user,
\* the session cart before.
EffectiveCart(ss, us, sid) ==
    IF ss[sid].user # NoUser THEN us[ss[sid].user].cart ELSE ss[sid].cart

\* A line the order validation must reject: its product is missing or
\* inactive, or no variant of its size and color has stock for its quantity.
BadLine(ln, prods) ==
    \/ ln.product \notin DOMAIN prods
    \/ ~prods[ln.product].exists
    \/ ~prods[ln.product].isActive
    \/ ~\E i \in 1..Len(prods[ln.product].variants) :
            /\ prods[ln.product].variants[i].size = ln.size
            /\ prods[ln.product].variants[i].color = ln.color
            /\ prods[ln.product].variants[i].stock >= ln.quantity

OrderArrives(s) ==
    /\ req[s].pc = "idle"
    /\ req'[s].op = "order"
    /\ req'[s].pc # "idle"

\* C1: an order request whose cart holds a line that fails validation is
\* answered with a failure, and neither an order, nor a stock or soldCount,
\* nor the cart changes.
C1_ValidationAllOrNothing ==
    [][\A s \in Slots :
        LET u == sessions[req'[s].sid].user
        IN  (/\ OrderArrives(s)
             /\ u # NoUser
             /\ \E i \in 1..Len(users[u].cart) : BadLine(users[u].cart[i], products))
            => /\ req'[s].pc = "done"
               /\ req'[s].res \in {"ProductUnavailable", "InsufficientStock"}
               /\ orders' = orders
               /\ products' = products
               /\ users' = users]_vars

\* A checkout was refused for stock although the cart is not empty.
C1_Witness ==
    \E s \in Slots :
        /\ req[s].op = "order" /\ req[s].pc = "done"
        /\ req[s].res = "InsufficientStock"
        /\ users[sessions[req[s].sid].user].cart # <<>>
        /\ \E i \in 1..Len(users[sessions[req[s].sid].user].cart) :
               BadLine(users[sessions[req[s].sid].user].cart[i], products)

\* C2: no overselling when the checkouts of two users overlap: the stock of
\* a variant is never below 0.
C2_NoOverselling ==
    \A p \in ProductIds : \A i \in 1..Len(products[p].variants) :
        products[p].variants[i].stock >= 0

\* C3: a stock update of an order line (product, size, color, q) reduces the
\* stock of the variant with that size and color by q, leaves the other
\* variants alone and raises soldCount by q.
C3_DecrementsOrderedVariant ==
    [][\A s \in Slots :
        (/\ req[s].pc = "ord_stock"
         /\ req'[s].k = req[s].k + 1)
        => LET it == req[s].items[req[s].k]
               prod == products[it.product]
               vi == FindVariant(prod.variants, it.size, it.color)
           IN  vi > 0 =>
                 products' = [products EXCEPT ![it.product] =
                    [prod EXCEPT !.variants[vi].stock = @ - it.quantity,
                                 !.soldCount = @ + it.quantity]]]_vars

\* C4: an order whose request has answered has had a stock update applied
\* for every one of its lines.
C4_NoPartialState ==
    \A i \in 1..Len(orders) :
        orders[i].closed => orders[i].decs = Len(orders[i].items)

\* C5: totalStock is the sum of the stocks of the variants.
C5_TotalStockIsSum ==
    \A p \in ProductIds :
        products[p].exists => products[p].totalStock = SumStock(products[p].variants)

\* C6: no cart holds two lines with the same (product, size, color).
KeysUnique(cart) ==
    \A i, j \in 1..Len(cart) :
        (/\ cart[i].product = cart[j].product
         /\ cart[i].size = cart[j].size
         /\ cart[i].color = cart[j].color) => i = j

C6_CartKeysUnique ==
    /\ \A u \in UserIds : KeysUnique(users[u].cart)
    /\ \A sid \in SessionIds : KeysUnique(sessions[sid].cart)

\* The request on slot s answers in this step.
Answers(s, op) ==
    /\ req[s].pc # "done"
    /\ req'[s].pc = "done"
    /\ req'[s].op = op

SameKey(ln, r) ==
    ln.product = r.pid /\ ln.size = r.size /\ ln.color = r.color

StockOf(prods, r) ==
    IF ~(r.pid \in DOMAIN prods /\ prods[r.pid].exists /\ prods[r.pid].isActive)
    THEN -1
    ELSE LET hits == {i \in 1..Len(prods[r.pid].variants) :
                        /\ prods[r.pid].variants[i].size = r.size
                        /\ prods[r.pid].variants[i].color = r.color}
         IN  IF hits = {} THEN -2
             ELSE prods[r.pid].variants[CHOOSE i \in hits : \A j \in hits : i <= j].stock

\* The quantity the cart holds under the key of the request, 0 for none.
HeldQty(cart, r) ==
    IF \E i \in 1..Len(cart) : SameKey(cart[i], r)
    THEN cart[CHOOSE i \in 1..Len(cart) : SameKey(cart[i], r)].quantity
    ELSE 0

C9_UpdateZeroRemoves ==
    \A s \in Slots :
        (req[s].op = "update" /\ req[s].pc = "done" /\ req[s].qty = 0) =>
            /\ req[s].res = "ok"
            /\ HeldQty(EffectiveCart(sessions, users, req[s].sid), req[s]) = 0

\* The 404 answers of PUT /update about the cart: 'Item not found in cart'
\* and, for a guest session without a cart, 'Cart is empty'.
NotInCart == {"ItemNotFound", "CartEmpty"}

\* C10 as claimed: an Update with q >= 1 on a cart without the line answers
\* that the item is not in the cart, and one whose variant is missing or
\* short of stock answers with the stock error.
C10_AsClaimed ==
    \A s \in Slots :
        (req[s].op = "update" /\ req[s].pc = "done" /\ req[s].qty >= 1) =>
            /\ HeldQty(EffectiveCart(sessions, users, req[s].sid), req[s]) = 0
                    => req[s].res \in NotInCart
            /\ (StockOf(products, req[s]) = -2
                    \/ (StockOf(products, req[s]) >= 0
                            /\ StockOf(products, req[s]) < req[s].qty))
                    => req[s].res = "InsufficientStock"

\* C10 amended: an Update with q >= 1 answers ProductNotFound for a missing
\* or inactive product, else the stock error for a missing variant or a
\* stock below q, else a not-found answer for a cart without the line
\* (CartEmpty for a guest session that never had a cart, ItemNotFound
\* otherwise); a refused Update changes nothing; an accepted one sets the
\* quantity of the line with its key to q and changes no other line.
C10_UpdateChecksInOrder ==
    [][\A s \in Slots :
        (Answers(s, "update") /\ req'[s].qty >= 1) =>
            LET r == req'[s]
                st == StockOf(products, r)
                old == EffectiveCart(sessions, users, r.sid)
                new == EffectiveCart(sessions', users', r.sid)
                guestNoCart == sessions[r.sid].user = NoUser /\ ~sessions[r.sid].hasCart
            IN  /\ r.res = IF st = -1 THEN "ProductNotFound"
                           ELSE IF st = -2 \/ st < r.qty THEN "InsufficientStock"
                           ELSE IF guestNoCart THEN "CartEmpty"
                           ELSE IF HeldQty(old, r) = 0 THEN "ItemNotFound"
                           ELSE "ok"
                /\ r.res # "ok" => sessions' = sessions /\ users' = users
                /\ r.res = "ok" =>
                     /\ Len(new) = Len(old)
                     /\ \A i \in 1..Len(old) :
                          new[i] = IF SameKey(old[i], r)
                                   THEN [old[i] EXCEPT !.quantity = r.qty]
                                   ELSE old[i]]_vars

\* An Update was refused for stock although the cart has no line under its
\* key.
C10_Witness ==
    \E s \in Slots :
        /\ req[s].op = "update" /\ req[s].pc = "done" /\ req[s].qty >= 1
        /\ req[s].res = "InsufficientStock"
        /\ HeldQty(EffectiveCart(sessions, users, req[s].sid), req[s]) = 0

\* C11: a Remove answers success; the cart it leaves is the cart it found
\* without the lines of its key, every other line kept in place, so that a
\* Remove on a cart without the line changes nothing and a second Remove
\* with the same key changes nothing more.
C11_RemoveIdempotent ==
    [][\A s \in Slots :
        Answers(s, "remove") =>
            LET r == req'[s]
                old == EffectiveCart(sessions, users, r.sid)
                new == EffectiveCart(sessions', users', r.sid)
            IN  /\ r.res = "ok"
                /\ new = SelectSeq(old, LAMBDA ln : ~SameKey(ln, r))
                /\ HeldQty(old, r) = 0 => new = old
                /\ HeldQty(new, r) = 0]_vars

\* A Remove has answered on a cart that holds a line of the same product in
\* another size and no line of its own key.
C11_Witness ==
    \E s \in Slots :
        /\ req[s].op = "remove" /\ req[s].pc = "done" /\ req[s].res = "ok"
        /\ HeldQty(EffectiveCart(sessions, users, req[s].sid), req[s]) = 0
        /\ \E i \in 1..Len(EffectiveCart(sessions, users, req[s].sid)) :
              EffectiveCart(sessions, users, req[s].sid)[i].product = req[s].pid

\* C12: the answer of View carries one entry for every stored line, in
\* order; the entry of a line whose product is gone or inactive, whose
\* variant is gone or whose variant is short of stock says inStock = FALSE
\* and adds nothing to the subtotal; the count is the number of stored lines.
C12_ViewKeepsEveryLine ==
    [][\A s \in Slots :
        Answers(s, "cart") =>
            LET r == req'[s]
                cart == EffectiveCart(sessions, users, r.sid)
            IN  /\ r.k = Len(cart)
                /\ Len(r.items) = Len(cart)
                /\ \A i \in 1..Len(cart) :
                     /\ r.items[i].line = cart[i]
                     /\ BadLine(cart[i], products) =>
                            ~r.items[i].inStock /\ r.items[i].itemTotal = 0]_vars

\* C13: after a Transfer, every line of the user cart that the merge created
\* or increased refers to a variant of an active product and holds no more
\* than the stock of that variant.
C13_TransferRevalidatesStock ==
    [][\A s \in Slots :
        (Answers(s, "transfer") /\ req'[s].res = "ok") =>
            LET u == sessions[req'[s].sid].user
                old == users[u].cart
                new == users'[u].cart
            IN  \A i \in 1..Len(new) :
                    (i > Len(old) \/ new[i].quantity > old[i].quantity)
                        => ~BadLine(new[i], products)]_vars

\* C14: when a Transfer has answered, with success or with the failure of
\* the save of the user cart, the guest cart of its session is empty; and a
\* guest cart of one line transferred into a user cart that is empty when
\* read and when saved leaves the user cart with exactly that line.
C14_TransferEmptiesGuestCart ==
    [][\A s \in Slots :
        (Answers(s, "transfer") /\ req'[s].res \in {"ok", "ServerError"}) =>
            LET sid == req'[s].sid
                u == sessions[sid].user
            IN  /\ sessions'[sid].cart = <<>>
                /\ (users[u].cart = <<>> /\ req[s].ucart = <<>>
                        /\ Len(sessions[sid].cart) = 1 /\ req'[s].res = "ok")
                    => users'[u].cart = sessions[sid].cart]_vars

\* C15: no session has both an authenticated user and a guest cart that
\* still holds lines.
C15_NoGuestCartOnceAuthenticated ==
    \A sid \in SessionIds :
        sessions[sid].user # NoUser => sessions[sid].cart = <<>>

\* The sum over the items of an order of unit price times quantity, the unit
\* price being the price of the variant when it has one, else the base price
\* of the product.
RECURSIVE LineSum(_)
LineSum(items) ==
    IF items = <<>> THEN 0
    ELSE LET it == Head(items)
             unit == IF VariantPrice(it.product, it.size, it.color) # 0
                     THEN VariantPrice(it.product, it.size, it.color)
                     ELSE BasePrice(it.product)
         IN  unit * it.quantity + LineSum(Tail(items))

\* A tenth of an amount of cents, rounded to the cent, halves away from zero.
Round2Tenth(sub) == (sub + 5) \div 10

\* C16: every stored order has subtotal = sum of price * quantity, tax =
\* round2(subtotal * 0.10), shipping = 0 exactly for a subtotal over 100.00
\* and 10.00 otherwise, total = subtotal + tax + shipping - discount, and
\* the pricing the pre-save hook left is the pricing the handler computed.
C16_PricingFormula ==
    \A i \in 1..Len(orders) :
        LET o == orders[i]
            sub == LineSum(o.items)
        IN  /\ o.pricing.subtotal = sub
            /\ o.pricing.tax = Round2Tenth(sub)
            /\ o.pricing.shipping = (IF sub > 10000 THEN 0 ELSE 1000)
            /\ o.pricing.total = sub + o.pricing.tax + o.pricing.shipping
                                     - o.pricing.discount
            /\ o.pricing = o.quoted

\* C17: the discount of a stored order is 0 unless the coupon code is the
\* recognized one; for it, the discount is a tenth of the subtotal, to the
\* nearest cent, for the type percentage, and the flat amount capped at the
\* subtotal otherwise; in every case 0 <= discount <= subtotal.
C17_DiscountWithinSubtotal ==
    \A i \in 1..Len(orders) :
        LET o == orders[i]
            sub == LineSum(o.items)
            d == o.pricing.discount
        IN  /\ o.coupon.code # "SAVE10" => d = 0
            /\ (o.coupon.code = "SAVE10" /\ o.coupon.type = "percentage")
                    => (10 * d - sub <= 5 /\ sub - 10 * d <= 5)
            /\ (o.coupon.code = "SAVE10" /\ o.coupon.type # "percentage"
                    /\ o.coupon.discount > 0)
                    => d = (IF o.coupon.discount < sub THEN o.coupon.discount ELSE sub)
            /\ 0 <= d
            /\ d <= sub

\* C18: the status of an order is the status of the last entry of its
\* history, and a step that changes the history of an order appends one
\* entry to it and leaves the earlier entries as they were.
C18_StatusIsLastHistoryEntry ==
    [][\A i \in 1..Len(orders) :
        LET h == orders[i].statusHistory
            h2 == orders'[i].statusHistory
        IN  /\ h2 # <<>> => orders'[i].status = h2[Len(h2)].status
            /\ h2 # h => (Len(h2) = Len(h) + 1 /\ SubSeq(h2, 1, Len(h)) = h)]_vars

\* C19: a status update with a status outside the enumeration answers with a
\* validation error, one for an unknown order number answers not-found, and
\* neither changes any order.
C19_InvalidStatusRejected ==
    [][\A s \in Slots :
        Answers(s, "status") =>
            /\ req'[s].status \notin OrderStatuses
                    => (req'[s].res = "ValidationFailed" /\ orders' = orders)
            /\ (/\ req'[s].status \in OrderStatuses
                /\ \A i \in 1..Len(orders) :
                        orders[i].orderNumber # req'[s].number)
                    => (req'[s].res = "OrderNotFound" /\ orders' = orders)]_vars

\* An update with a status outside the enumeration has been refused while
\* the order it named exists and keeps its status.
C19_Witness ==
    \E s \in Slots :
        /\ req[s].op = "status" /\ req[s].pc = "done"
        /\ req[s].status = "bogus" /\ req[s].res = "ValidationFailed"
        /\ Len(orders) = 1 /\ orders[1].status = "confirmed"

\* C20: an order whose status is delivered, cancelled, returned or refunded
\* keeps its status and its history.
C20_TerminalStatuses ==
    [][\A i \in 1..Len(orders) :
        orders[i].status \in {"delivered", "cancelled", "returned", "refunded"}
            => /\ orders'[i].status = orders[i].status
               /\ orders'[i].statusHistory = orders[i].statusHistory]_vars

\* The part of an order that no request may change once it is stored.
Snapshot(o) ==
    [orderNumber |-> o.orderNumber, user |-> o.user, pricing |-> o.pricing,
     items |-> [i \in 1..Len(o.items) |->
                    [product |-> o.items[i].product, price |-> o.items[i].price,
                     quantity |-> o.items[i].quantity, size |-> o.items[i].size,
                     color |-> o.items[i].color, total |-> o.items[i].total]]]

\* C21: no step removes an order or changes the order number, the user, the
\* items or the pricing of a stored order, and the step in which a
\* shipping-info update answers leaves every status and history as it was.
C21_OrderImmutable ==
    [][/\ Len(orders') >= Len(orders)
       /\ \A i \in 1..Len(orders) : Snapshot(orders'[i]) = Snapshot(orders[i])
       /\ \A s \in Slots :
            Answers(s, "shipping") =>
                \A i \in 1..Len(orders) :
                    /\ orders'[i].status = orders[i].status
                    /\ orders'[i].statusHistory = orders[i].statusHistory]_vars

\* An order with a discount has had its status and its tracking number
\* updated.
C21_Witness ==
    /\ Len(orders) = 1
    /\ orders[1].pricing.discount > 0
    /\ orders[1].status = "shipped"
    /\ orders[1].tracking = "TRK1"

\* C22: a step that changes a product changes no order, and every stored
\* order keeps the pricing computed when it was created, with items whose
\* totals are unit price times quantity and add up to that subtotal.
C22_PriceSnapshot ==
    [][/\ products' # products =>
            /\ Len(orders') = Len(orders)
            /\ \A i \in 1..Len(orders) : Snapshot(orders'[i]) = Snapshot(orders[i])
       /\ \A i \in 1..Len(orders') :
            /\ orders'[i].pricing = orders'[i].quoted
            /\ SumTotals(orders'[i].items) = orders'[i].quoted.subtotal
            /\ \A j \in 1..Len(orders'[i].items) :
                 orders'[i].items[j].total =
                    orders'[i].items[j].price * orders'[i].items[j].quantity]_vars

\* An order whose status was updated after the price of its product had
\* changed.
C22_Witness ==
    /\ Len(orders) >= 1
    /\ orders[1].status = "shipped"
    /\ req[2].pc = "done" /\ req[2].op = "status" /\ req[2].res = "ok"
    /\ \E j \in 1..Len(orders[1].items) :
         orders[1].items[j].price #
            ItemPrice(Lookup(products, orders[1].items[j].product),
                      orders[1].items[j].size, orders[1].items[j].color)

\* C23: the step in which order.save() of a validated order-creation request
\* returns stores one more order, under a number no stored order carried, and
\* no two stored orders share an order number.
C23_FreshOrderNumber ==
    [][/\ \A s \in Slots :
            (req[s].pc = "ord_save" /\ req'[s].pc # "ord_save") =>
                /\ Len(orders') = Len(orders) + 1
                /\ \A i \in 1..Len(orders) :
                     orders[i].orderNumber # orders'[Len(orders')].orderNumber
       /\ \A i, j \in 1..Len(orders') :
            orders'[i].orderNumber = orders'[j].orderNumber => i = j]_vars

\* The cart lines the items of an order were built from.
LinesOf(items) ==
    [i \in 1..Len(items) |->
        Line(items[i].product, items[i].size, items[i].color, items[i].quantity)]

\* C24: when an order creation answers success, the user's cart is empty,
\* the session's cartCount is 0 and the order is in the user's orders list;
\* when it answers a failure, the user's cart and the session's cartCount
\* are those the request found.
C24_CartAfterOrder ==
    [][\A s \in Slots :
        Answers(s, "order") =>
            LET sid == req'[s].sid
                u == sessions[sid].user
            IN  IF req'[s].res = "ok"
                THEN /\ users'[u].cart = <<>>
                     /\ sessions'[sid].cartCount = 0
                     /\ \E i \in 1..Len(users'[u].orders) : users'[u].orders[i] = req[s].oid
                ELSE IF req[s].pc = "idle"
                THEN users' = users /\ sessions' = sessions
                ELSE /\ users'[u].cart = LinesOf(req[s].items)
                     /\ sessions'[sid].cartCount = sessions[sid].cartCount]_vars

\* C25: no step removes a category document; a delete that finds the
\* category referenced answers a rejection and a rejected delete changes no
\* category, while a delete that answers success leaves the category
\* deactivated and referenced by no product and no subcategory; and every
\* product's category and every category's parentCategory is an existing
\* category.
C25_CategoriesStay ==
    [][/\ \A c \in CategoryIds : categories[c].exists => categories'[c].exists
       /\ \A s \in Slots :
            Answers(s, "cdelete") =>
                IF req'[s].res \in {"HasProducts", "HasSubcategories"}
                THEN categories' = categories
                ELSE req'[s].res = "ok" =>
                        /\ ~categories'[req'[s].cat].isActive
                        /\ \A p \in ProductIds :
                             products'[p].exists => productCategory'[p] # req'[s].cat
                        /\ \A d \in CategoryIds :
                             categories'[d].exists =>
                                categories'[d].parentCategory # req'[s].cat
       /\ \A p \in ProductIds :
            products'[p].exists => categories'[productCategory'[p]].exists
       /\ \A c \in CategoryIds :
            (categories'[c].exists /\ categories'[c].parentCategory # NoCategory)
                => categories'[categories'[c].parentCategory].exists]_vars

\* The status that follows a status in the lifecycle, "" after the last.
NextInLifecycle(st) ==
    CASE st = "pending" -> "confirmed"
      [] st = "confirmed" -> "processing"
      [] st = "processing" -> "shipped"
      [] st = "shipped" -> "delivered"
      [] OTHER -> ""

TerminalStatuses == {"delivered", "cancelled", "returned", "refunded"}

SideExits == {"cancelled", "returned", "refunded"}

\* C26: when an accepted status update changes the status of an order, the
\* order was in a non-terminal status and its new status is the next one of
\* the lifecycle or a side exit.
C26_LifecycleOrder ==
    [][\A s \in Slots :
        (Answers(s, "status") /\ req'[s].res = "ok") =>
            LET from == orders[req[s].oid].status
                to == orders'[req[s].oid].status
            IN  to # from =>
                    /\ from \notin TerminalStatuses
                    /\ to = NextInLifecycle(from) \/ to \in SideExits]_vars

\* C27: the viewCount of a product is the number of its fetches that
\* answered success, and no step lowers it.
C27_ViewCountExact ==
    [][\A p \in ProductIds :
        /\ products'[p].viewCount = products'[p].fetched
        /\ products'[p].viewCount >= products[p].viewCount]_vars

\* C28: a read of an order by a signed-in session that is not an
\* administrator's answers the order exactly when the order exists and
\* belongs to the session's user, and answers not-found otherwise, whether
\* the order exists or not; an administrator's read answers every existing
\* order; a status or shipping update of a session that is not an
\* administrator's is refused in the step it arrives in and changes no
\* order.
C28_OrderIsolation ==
    [][\A s \in Slots :
        /\ Answers(s, "get") =>
            LET sess == sessions[req'[s].sid]
                i == FindOrder(orders, req'[s].number)
            IN  IF sess.user = NoUser THEN req'[s].res = "Unauthorized"
                ELSE IF i # 0 /\ (sess.role = "admin" \/ orders[i].user = sess.user)
                THEN req'[s].res = "ok" /\ req'[s].oid = i
                ELSE req'[s].res = "OrderNotFound" /\ req'[s].oid = 0
        /\ (/\ req[s].pc = "idle"
            /\ req'[s].op \in {"status", "shipping"}
            /\ ~IsAdmin(sessions[req'[s].sid]))
            => /\ req'[s].pc = "done"
               /\ req'[s].res = "Forbidden"
               /\ orders' = orders]_vars

\* A customer who does not own ORD-1 was told it does not exist, and the
\* same customer's status update was refused.
C28_Witness ==
    /\ req[1].pc = "done" /\ req[1].op = "get" /\ req[1].number = "ORD-1"
    /\ req[1].sid = "s2" /\ sessions["s2"].role = "user"
    /\ req[1].res = "OrderNotFound"
    /\ req[2].pc = "done" /\ req[2].op = "status" /\ req[2].sid = "s2"
    /\ req[2].res = "Forbidden"
    /\ orders[1].status = "pending"

\* The orders stored for a user.
OrdersOf(u) == {i \in 1..Len(orders) : orders[i].user = u}

\* C29: the cart a user holds is consumed by at most one order: no cart is
\* filled again in this specification, so at most one order is stored for
\* each user, and no order has more stock updates applied than it has lines.
C29_CartConsumedOnce ==
    /\ \A u \in UserIds : Cardinality(OrdersOf(u)) <= 1
    /\ \A i \in 1..Len(orders) : orders[i].decs <= Len(orders[i].items)

\* C30: whenever no request of a session is being handled, the session's
\* cartCount is the number of lines of its effective cart.
C30_CartCountMatches ==
    (\A s \in Slots : req[s].pc \in {"idle", "done"}) =>
        \A sid \in SessionIds :
            sessions[sid].cartCount = Len(EffectiveCart(sessions, users, sid))

====
